---- MODULE Spec2Model ----
(***************************************************************************)
(* Weekly report synthesis of the OpenProject MCP server:                  *)
(*   src/src/tools/weekly_reports.py   (fetch, relevance filter, tools)    *)
(*   src/src/utils/report_formatter.py (grouping, metrics, rendering)      *)
(*                                                                         *)
(* Python values.  A str is a tuple of one-character strings, so that      *)
(* lower() and the substring test `kw in s` are computed, not assumed.     *)
(* A dict is a record; a key that is absent holds Missing, a key that      *)
(* holds null holds None.  A datetime is [ord, sec]: the proleptic         *)
(* Gregorian ordinal of its date and the second of its day.                *)
(***************************************************************************)
EXTENDS Integers, Sequences, FiniteSets, TLC

Missing == <<"<missing>">>
None == <<"<None>">>

\* dict.get(key, default) on a flattened field
get(field, default) == IF field = Missing THEN default ELSE field

UpperCase == <<"A","B","C","D","E","F","G","H","I","J","K","L","M",
               "N","O","P","Q","R","S","T","U","V","W","X","Y","Z">>
LowerCase == <<"a","b","c","d","e","f","g","h","i","j","k","l","m",
               "n","o","p","q","r","s","t","u","v","w","x","y","z">>

lower_char(c) ==
    IF \E k \in DOMAIN UpperCase : UpperCase[k] = c
    THEN LowerCase[CHOOSE k \in DOMAIN UpperCase : UpperCase[k] = c]
    ELSE c

\* str.lower()
lower(s) == [k \in DOMAIN s |-> lower_char(s[k])]

\* Python's `kw in s` for two strs
Contains(kw, s) ==
    \E k \in 0..(Len(s) - Len(kw)) : SubSeq(s, k + 1, k + Len(kw)) = kw

\* any(kw in s for kw in kws)
ContainsAny(kws, s) == \E k \in DOMAIN kws : Contains(kws[k], s)

\* s[:n]
Truncate(s, n) == IF Len(s) <= n THEN s ELSE SubSeq(s, 1, n)

(***************************************************************************)
(* Keywords of the source, as strs.                                        *)
(***************************************************************************)
kw_blocked == <<"b","l","o","c","k","e","d">>

closed_status_keywords ==
    <<<<"c","l","o","s","e","d">>, <<"d","o","n","e">>,
      <<"r","e","s","o","l","v","e","d">>,
      <<"c","o","m","p","l","e","t","e","d">>,
      <<"f","i","n","i","s","h","e","d">>>>

(***************************************************************************)
(* Calendar arithmetic of datetime (date.toordinal, weekday, timedelta).   *)
(***************************************************************************)
IsLeap(y) == (y % 4 = 0) /\ ((y % 100 # 0) \/ (y % 400 = 0))

DaysInMonth(y, m) ==
    IF m = 2 THEN (IF IsLeap(y) THEN 29 ELSE 28)
    ELSE IF m \in {4, 6, 9, 11} THEN 30 ELSE 31

RECURSIVE DaysBeforeMonth(_, _)
DaysBeforeMonth(y, m) ==
    IF m <= 1 THEN 0 ELSE DaysBeforeMonth(y, m - 1) + DaysInMonth(y, m - 1)

DaysBeforeYear(y) ==
    LET p == y - 1 IN (p * 365) + (p \div 4) - (p \div 100) + (p \div 400)

ValidYMD(y, m, d) ==
    /\ y \in 1..9999
    /\ m \in 1..12
    /\ d \in 1..DaysInMonth(y, m)

Ordinal(y, m, d) == DaysBeforeYear(y) + DaysBeforeMonth(y, m) + d

\* the day of the week counted from Sunday
weekday_sunday_first(dt) == dt.ord % 7

\* datetime.weekday(): Monday is 0
weekday(dt) == (dt.ord + 6) % 7

\* dt - timedelta(days=n)
minus_days(dt, n) == [ord |-> dt.ord - n, sec |-> dt.sec]

\* a <= b on naive datetimes
DtLE(a, b) == (a.ord < b.ord) \/ (a.ord = b.ord /\ a.sec <= b.sec)

(***************************************************************************)
(* Date and timestamp texts.  A date text is [shape, y, m, d]; a           *)
(* timestamp text is [shape, y, m, d, sec, tz].  shape "" is the empty     *)
(* (falsy) str, "bad" a value fromisoformat rejects.                       *)
(***************************************************************************)
ValueError == [ord |-> -1, sec |-> -1]

\* datetime.strptime(text, "%Y-%m-%d"): %m and %d also accept one digit
strptime(text) ==
    IF /\ text.shape \in {"YYYY-MM-DD", "YYYY-M-D"}
       /\ ValidYMD(text.y, text.m, text.d)
    THEN [ord |-> Ordinal(text.y, text.m, text.d), sec |-> 0]
    ELSE ValueError

\* bool(value) of a timestamp field
Truthy(ts) == ts.shape # ""

\* datetime.fromisoformat(ts.replace('Z', '+00:00')).replace(tzinfo=None):
\* the offset is dropped, not applied
fromisoformat_naive(ts) ==
    IF ts.shape = "iso" /\ ValidYMD(ts.y, ts.m, ts.d) /\ ts.sec \in 0..86399
    THEN [ord |-> Ordinal(ts.y, ts.m, ts.d), sec |-> ts.sec]
    ELSE ValueError

NoTs == [shape |-> "", y |-> 0, m |-> 0, d |-> 0, sec |-> 0, tz |-> ""]
BadTs == [shape |-> "bad", y |-> 0, m |-> 0, d |-> 0, sec |-> 0, tz |-> ""]
IsoTs(y, m, d, hh, mi, ss, tz) ==
    [shape |-> "iso", y |-> y, m |-> m, d |-> d,
     sec |-> (hh * 3600) + (mi * 60) + ss, tz |-> tz]

DateText(y, m, d) == [shape |-> "YYYY-MM-DD", y |-> y, m |-> m, d |-> d]

(***************************************************************************)
(* A work package (the fields the report reads), flattened:                *)
(*   status_name   = wp['_embedded']['status']['name']                     *)
(*   status_title  = wp['_links']['status']['title']                       *)
(*   type_name     = wp['_embedded']['type']['name']                       *)
(*   assignee_name = wp['_embedded']['assignee']['name']                   *)
(***************************************************************************)
WorkPackage(id, subject, status_name, status_title, type_name, updatedAt, createdAt, closedOn, closedAt) ==
    [id |-> id, subject |-> subject, status_name |-> status_name,
     status_title |-> status_title, type_name |-> type_name,
     assignee_name |-> Missing, dueDate |-> Missing,
     updatedAt |-> updatedAt, createdAt |-> createdAt,
     closedOn |-> closedOn, closedAt |-> closedAt]

(***************************************************************************)
(* RelevanceFilter: the loop body of _generate_weekly_report_impl and of   *)
(* get_report_data (the two copies are the same text).                     *)
(***************************************************************************)
\* wp.get('_embedded', {}).get('status', {}).get('name', '').lower()
\* raises AttributeError, outside the inner try, when the name is null
StatusNameRaises(wp) == wp.status_name = None

filter_status_name(wp) == lower(get(wp.status_name, <<>>))

is_closed_status(wp) ==
    ContainsAny(closed_status_keywords, filter_status_name(wp))

\* wp.get('closedOn', '') or wp.get('closedAt', '')
closed_on(wp) == IF Truthy(wp.closedOn) THEN wp.closedOn ELSE wp.closedAt

\* `if ts: dt = fromisoformat(ts)` raises inside the inner try
ParseFails(ts) == Truthy(ts) /\ fromisoformat_naive(ts) = ValueError

\* `if ts:` ... `if lo <= dt <= hi:` is taken
ParsedWithin(ts, lo, hi) ==
    /\ Truthy(ts)
    /\ fromisoformat_naive(ts) # ValueError
    /\ DtLE(lo, fromisoformat_naive(ts))
    /\ DtLE(fromisoformat_naive(ts), hi)

LookbackDays == 30

\* the cascade with every parse failure answered by inclusion
is_relevant_include_on_failure(wp, from_dt, to_dt) ==
    IF ParseFails(wp.updatedAt) THEN TRUE
    ELSE IF ParsedWithin(wp.updatedAt, from_dt, to_dt) THEN TRUE
    ELSE IF ParseFails(wp.createdAt) THEN TRUE
    ELSE IF ParsedWithin(wp.createdAt, from_dt, to_dt) THEN TRUE
    ELSE IF is_closed_status(wp)
         THEN IF ParsedWithin(wp.updatedAt,
                              minus_days(to_dt, LookbackDays), to_dt)
              THEN TRUE
              ELSE IF ParseFails(closed_on(wp)) THEN TRUE
              ELSE ParsedWithin(closed_on(wp), from_dt, to_dt)
         ELSE FALSE

\* the cascade without the look-back on closed work packages
is_relevant_no_lookback(wp, from_dt, to_dt) ==
    IF ParseFails(wp.updatedAt) THEN is_closed_status(wp)
    ELSE IF ParsedWithin(wp.updatedAt, from_dt, to_dt) THEN TRUE
    ELSE IF ParseFails(wp.createdAt) THEN is_closed_status(wp)
    ELSE IF ParsedWithin(wp.createdAt, from_dt, to_dt) THEN TRUE
    ELSE IF is_closed_status(wp)
         THEN IF ParseFails(closed_on(wp)) THEN TRUE
              ELSE ParsedWithin(closed_on(wp), from_dt, to_dt)
         ELSE FALSE

\* The cascade for one work package whose status lookup did not raise:
\* TRUE when the loop body appends it to work_packages.
is_relevant(wp, from_dt, to_dt) ==
    IF ParseFails(wp.updatedAt) THEN is_closed_status(wp)
    ELSE IF ParsedWithin(wp.updatedAt, from_dt, to_dt) THEN TRUE
    ELSE IF ParseFails(wp.createdAt) THEN is_closed_status(wp)
    ELSE IF ParsedWithin(wp.createdAt, from_dt, to_dt) THEN TRUE
    ELSE IF is_closed_status(wp)
         THEN IF ParsedWithin(wp.updatedAt,
                              minus_days(to_dt, LookbackDays), to_dt)
              THEN TRUE
              ELSE IF ParseFails(closed_on(wp)) THEN TRUE
              ELSE ParsedWithin(closed_on(wp), from_dt, to_dt)
         ELSE FALSE

\* the whole loop: the relevant sub-list, or the exception that leaves it
FilterRaises(all_wps) == \E k \in DOMAIN all_wps : StatusNameRaises(all_wps[k])

filter_work_packages(all_wps, from_dt, to_dt) ==
    SelectSeq(all_wps, LAMBDA wp : is_relevant(wp, from_dt, to_dt))

(***************************************************************************)
(* report_formatter.py.  A time entry is [hours_kind, hours,               *)
(* activity_name]: hours_kind "number" (hours is its value), "missing"     *)
(* (no key: the default 0) or "text" (a value float() rejects).  A project *)
(* is [id, name, description]: description a str (its raw text), Missing   *)
(* or None.                                                                *)
(***************************************************************************)
done_keywords ==
    <<<<"c","l","o","s","e","d">>, <<"d","o","n","e">>,
      <<"r","e","s","o","l","v","e","d">>,
      <<"c","o","m","p","l","e","t","e","d">>,
      <<"f","i","n","i","s","h","e","d">>>>
in_progress_keywords ==
    <<<<"p","r","o","g","r","e","s","s">>,
      <<"d","e","v","e","l","o","p","m","e","n","t">>,
      <<"i","m","p","l","e","m","e","n","t","i","n","g">>>>
de_scoped_keywords ==
    <<<<"r","e","j","e","c","t","e","d">>,
      <<"c","a","n","c","e","l","l","e","d">>>>
planned_keywords ==
    <<<<"n","e","w">>, <<"o","p","e","n">>,
      <<"s","p","e","c","i","f","i","e","d">>, <<"t","o"," ","d","o">>>>

NoStatus(status_name) ==
    status_name = <<>> \/ status_name = <<"u","n","k","n","o","w","n">>

\* the label read from the primary field alone
status_label_primary_only(wp) == lower(get(wp.status_name, <<>>))

\* status_name after the fallback to _links.status.title
\* (calculate_metrics lines 39-45, group_by_status lines 105-111)
status_label(wp) ==
    LET primary == lower(get(wp.status_name, <<>>))
    IN  IF NoStatus(primary)
        THEN lower(get(wp.status_title, <<>>))
        ELSE primary

\* .lower() of a null name or title raises AttributeError
StatusLabelRaises(wp) ==
    \/ wp.status_name = None
    \/ /\ NoStatus(lower(get(wp.status_name, <<>>)))
       /\ wp.status_title = None

\* the loop body with the blocked test ahead of the in-progress test
group_category_blocked_first(wp) ==
    LET status_name == status_label(wp)
    IN  IF NoStatus(status_name) THEN "planned"
        ELSE IF ContainsAny(done_keywords, status_name) THEN "done"
        ELSE IF Contains(kw_blocked, status_name) THEN "blocked"
        ELSE IF ContainsAny(in_progress_keywords, status_name)
             THEN "in_progress"
        ELSE IF ContainsAny(de_scoped_keywords, status_name)
             THEN "de_scoped"
        ELSE "planned"

\* the loop body with its last branch filling `other`
group_category_other(wp) ==
    LET status_name == status_label(wp)
    IN  IF NoStatus(status_name) THEN "planned"
        ELSE IF ContainsAny(done_keywords, status_name) THEN "done"
        ELSE IF ContainsAny(in_progress_keywords, status_name)
             THEN "in_progress"
        ELSE IF Contains(kw_blocked, status_name) THEN "blocked"
        ELSE IF ContainsAny(de_scoped_keywords, status_name)
             THEN "de_scoped"
        ELSE IF ContainsAny(planned_keywords, status_name) THEN "planned"
        ELSE "other"

\* the branch of group_by_status's loop body that takes the work package
group_category(wp) ==
    LET status_name == status_label(wp)
    IN  IF NoStatus(status_name) THEN "planned"
        ELSE IF ContainsAny(done_keywords, status_name) THEN "done"
        ELSE IF ContainsAny(in_progress_keywords, status_name)
             THEN "in_progress"
        ELSE IF Contains(kw_blocked, status_name) THEN "blocked"
        ELSE IF ContainsAny(de_scoped_keywords, status_name)
             THEN "de_scoped"
        ELSE IF ContainsAny(planned_keywords, status_name) THEN "planned"
        ELSE "planned"

group_by_status(work_packages) ==
    [done |-> SelectSeq(work_packages,
                        LAMBDA wp : group_category(wp) = "done"),
     in_progress |-> SelectSeq(work_packages,
                        LAMBDA wp : group_category(wp) = "in_progress"),
     planned |-> SelectSeq(work_packages,
                        LAMBDA wp : group_category(wp) = "planned"),
     blocked |-> SelectSeq(work_packages,
                        LAMBDA wp : group_category(wp) = "blocked"),
     de_scoped |-> SelectSeq(work_packages,
                        LAMBDA wp : group_category(wp) = "de_scoped"),
     other |-> SelectSeq(work_packages,
                        LAMBDA wp : group_category(wp) = "other")]

\* the loop body with a de-scoped branch that increments none of the four
metrics_category_de_scoped(wp) ==
    LET status_name == status_label(wp)
    IN  IF NoStatus(status_name) THEN "planned_count"
        ELSE IF ContainsAny(done_keywords, status_name) THEN "done_count"
        ELSE IF ContainsAny(in_progress_keywords, status_name)
             THEN "in_progress_count"
        ELSE IF Contains(kw_blocked, status_name) THEN "blocked_count"
        ELSE IF ContainsAny(de_scoped_keywords, status_name)
             THEN "de_scoped_count"
        ELSE "planned_count"

\* the counter calculate_metrics's loop body increments for the work package
metrics_category(wp) ==
    LET status_name == status_label(wp)
    IN  IF NoStatus(status_name) THEN "planned_count"
        ELSE IF ContainsAny(done_keywords, status_name) THEN "done_count"
        ELSE IF ContainsAny(in_progress_keywords, status_name)
             THEN "in_progress_count"
        ELSE IF Contains(kw_blocked, status_name) THEN "blocked_count"
        ELSE IF ContainsAny(planned_keywords, status_name)
             THEN "planned_count"
        ELSE "planned_count"


type_category_feature_first(wp) ==
    LET wp_type == lower(get(wp.type_name, <<>>))
        bug == <<<<"b","u","g">>, <<"d","e","f","e","c","t">>>>
        feature == <<<<"f","e","a","t","u","r","e">>, <<"s","t","o","r","y">>,
                     <<"t","a","s","k">>>>
    IN  IF ContainsAny(feature, wp_type) THEN "feature_count"
        ELSE IF ContainsAny(bug, wp_type) THEN "bug_count"
        ELSE "none"

type_category(wp) ==
    LET wp_type == lower(get(wp.type_name, <<>>))
        bug == <<<<"b","u","g">>, <<"d","e","f","e","c","t">>>>
        feature == <<<<"f","e","a","t","u","r","e">>, <<"s","t","o","r","y">>,
                     <<"t","a","s","k">>>>
    IN  IF ContainsAny(bug, wp_type) THEN "bug_count"
        ELSE IF ContainsAny(feature, wp_type) THEN "feature_count"
        ELSE "none"

activity_category(te) ==
    LET activity == lower(get(te.activity_name, <<>>))
        dev == <<<<"d","e","v","e","l","o","p","m","e","n","t">>,
                 <<"i","m","p","l","e","m","e","n","t">>>>
        qa == <<<<"t","e","s","t">>, <<"q","a">>>>
        management == <<<<"m","a","n","a","g","e","m","e","n","t">>,
                        <<"m","e","e","t","i","n","g">>>>
    IN  IF ContainsAny(dev, activity) THEN "dev_hours"
        ELSE IF ContainsAny(qa, activity) THEN "qa_hours"
        ELSE IF ContainsAny(management, activity) THEN "management_hours"
        ELSE "none"

\* float(te.get('hours', 0)) of a whole number of hours (or of no hours)
hours_of(te) == IF te.hours_kind = "number" THEN te.hours ELSE 0

(***************************************************************************)
(* Python floats are IEEE 754 binary64.  A non-negative finite value is    *)
(* [e, m]: m is its significand as a sequence of bits, most significant    *)
(* first, m[1] = 1, and e the exponent of m[1], so the value is the sum of *)
(* m[k] * 2^(e + 1 - k); zero has the empty significand.  A float has      *)
(* PrecisionBits bits; an exact sum may have more.  A time entry of        *)
(* hours_kind "float" carries such a value as its hours.                   *)
(***************************************************************************)
PrecisionBits == 53

Min(a, b) == IF a <= b THEN a ELSE b
Max(a, b) == IF a >= b THEN a ELSE b

\* the binary digits of a natural number, most significant first
RECURSIVE BitsOf(_)
BitsOf(n) == IF n = 0 THEN <<>> ELSE BitsOf(n \div 2) \o <<n % 2>>

\* binary addition of two equally long bit sequences: position k receives a
\* carry when a lower position generates one and every position between
\* passes it on; the carry out of the top position goes in front
CarryInto(A, B, k) ==
    \E j \in (k + 1)..Len(A) :
        /\ A[j] + B[j] = 2
        /\ \A q \in (k + 1)..(j - 1) : A[q] + B[q] = 1

AddBits(A, B) ==
    [k \in 1..(Len(A) + 1) |->
        IF k = 1 THEN (IF CarryInto(A, B, 0) THEN 1 ELSE 0)
        ELSE (A[k - 1] + B[k - 1]
              + (IF CarryInto(A, B, k - 1) THEN 1 ELSE 0)) % 2]

\* x + y in exact arithmetic
exact_add(x, y) ==
    IF x.m = <<>> THEN y
    ELSE IF y.m = <<>> THEN x
    ELSE LET top == Max(x.e, y.e)
             low == Min(x.e + 1 - Len(x.m), y.e + 1 - Len(y.m))
             width == top + 1 - low
             A == [k \in 1..width |->
                      IF k - (top - x.e) \in 1..Len(x.m)
                      THEN x.m[k - (top - x.e)] ELSE 0]
             B == [k \in 1..width |->
                      IF k - (top - y.e) \in 1..Len(y.m)
                      THEN y.m[k - (top - y.e)] ELSE 0]
             sum == AddBits(A, B)
         IN  IF sum[1] = 1 THEN [e |-> top + 1, m |-> sum]
             ELSE [e |-> top, m |-> Tail(sum)]

\* the float nearest to x, ties to the even significand
fround(x) ==
    IF x.m = <<>> THEN x
    ELSE IF Len(x.m) <= PrecisionBits
    THEN [e |-> x.e,
          m |-> [k \in 1..PrecisionBits |->
                    IF k <= Len(x.m) THEN x.m[k] ELSE 0]]
    ELSE LET mant == SubSeq(x.m, 1, PrecisionBits)
             up == /\ x.m[PrecisionBits + 1] = 1
                   /\ \/ mant[PrecisionBits] = 1
                      \/ \E k \in (PrecisionBits + 2)..Len(x.m) : x.m[k] = 1
         IN  IF ~up THEN [e |-> x.e, m |-> mant]
             ELSE IF \A k \in 1..PrecisionBits : mant[k] = 1
             THEN [e |-> x.e + 1,
                   m |-> [k \in 1..PrecisionBits |->
                             IF k = 1 THEN 1 ELSE 0]]
             ELSE LET p == CHOOSE p \in 1..PrecisionBits :
                               /\ mant[p] = 0
                               /\ \A q \in (p + 1)..PrecisionBits :
                                     mant[q] = 1
                  IN  [e |-> x.e,
                       m |-> [k \in 1..PrecisionBits |->
                                 IF k < p THEN mant[k]
                                 ELSE IF k = p THEN 1 ELSE 0]]

\* `metrics[...] += hours` over the list, in list order, in floats
RECURSIVE FloatSum(_)
FloatSum(time_entries) ==
    IF time_entries = <<>> THEN [e |-> 0, m |-> <<>>]
    ELSE LET te == time_entries[Len(time_entries)]
             hours == IF te.hours_kind = "float" THEN te.hours
                      ELSE fround([e |-> Len(BitsOf(hours_of(te))) - 1,
                                   m |-> BitsOf(hours_of(te))])
         IN  fround(exact_add(
                 FloatSum(SubSeq(time_entries, 1, Len(time_entries) - 1)),
                 hours))

\* metrics['total_hours'] += hours, over the list
RECURSIVE SumHours(_)
SumHours(time_entries) ==
    IF time_entries = <<>> THEN 0
    ELSE hours_of(Head(time_entries)) + SumHours(Tail(time_entries))

\* the sum of the hours of `selected`, entries of time_entries: whole
\* numbers of hours add up exactly, anything else adds up in floats
TotalIn(time_entries, selected) ==
    IF \E k \in DOMAIN time_entries : time_entries[k].hours_kind = "float"
    THEN FloatSum(selected)
    ELSE SumHours(selected)

MetricsRaises(work_packages, time_entries) ==
    \/ \E k \in DOMAIN work_packages :
          \/ StatusLabelRaises(work_packages[k])
          \/ work_packages[k].type_name = None
    \/ \E k \in DOMAIN time_entries :
          \/ time_entries[k].hours_kind = "text"
          \/ time_entries[k].activity_name = None

calculate_metrics(work_packages, time_entries) ==
    [total_wps |-> Len(work_packages),
     done_count |-> Len(SelectSeq(work_packages,
                      LAMBDA wp : metrics_category(wp) = "done_count")),
     in_progress_count |-> Len(SelectSeq(work_packages,
                      LAMBDA wp : metrics_category(wp) = "in_progress_count")),
     planned_count |-> Len(SelectSeq(work_packages,
                      LAMBDA wp : metrics_category(wp) = "planned_count")),
     blocked_count |-> Len(SelectSeq(work_packages,
                      LAMBDA wp : metrics_category(wp) = "blocked_count")),
     bug_count |-> Len(SelectSeq(work_packages,
                      LAMBDA wp : type_category(wp) = "bug_count")),
     feature_count |-> Len(SelectSeq(work_packages,
                      LAMBDA wp : type_category(wp) = "feature_count")),
     total_hours |-> TotalIn(time_entries, time_entries),
     dev_hours |-> TotalIn(time_entries, SelectSeq(time_entries,
                      LAMBDA te : activity_category(te) = "dev_hours")),
     qa_hours |-> TotalIn(time_entries, SelectSeq(time_entries,
                      LAMBDA te : activity_category(te) = "qa_hours")),
     management_hours |-> TotalIn(time_entries, SelectSeq(time_entries,
                      LAMBDA te : activity_category(te) = "management_hours"))]

blocker_of(wp) ==
    [id |-> wp.id,
     subject |-> IF wp.subject = Missing THEN None ELSE wp.subject,
     assignee |-> get(wp.assignee_name, "Unassigned"),
     status |-> IF wp.status_name = Missing THEN None ELSE wp.status_name,
     reason |-> "Status marked as blocked"]

\* the selection made on the label after the title fallback
detect_blockers_with_fallback(work_packages, relations) ==
    LET blocked == SelectSeq(work_packages,
                     LAMBDA wp : Contains(kw_blocked, status_label(wp)))
    IN  [k \in DOMAIN blocked |-> blocker_of(blocked[k])]

detect_blockers(work_packages, relations) ==
    LET blocked == SelectSeq(work_packages,
                     LAMBDA wp : Contains(kw_blocked, filter_status_name(wp)))
    IN  [k \in DOMAIN blocked |-> blocker_of(blocked[k])]

\* format_work_package_row (the cells the model keeps); subject[:50]
format_work_package_row(wp) ==
    [id |-> wp.id,
     subject |-> Truncate(get(wp.subject, <<"N","o"," ","s","u","b","j","e","c","t">>), 50),
     status |-> get(wp.status_name, <<"U","n","k","n","o","w","n">>)]

\* a row of the de-scoped table; subject[:40]
de_scoped_row(wp) ==
    [id |-> wp.id,
     subject |-> Truncate(get(wp.subject, <<"N","o"," ","s","u","b","j","e","c","t">>), 40),
     status |-> get(wp.status_name, <<"U","n","k","n","o","w","n">>)]

\* a row of the impediments table; blocker['subject'][:40]
blocker_row(blocker) ==
    [id |-> blocker.id, subject |-> Truncate(blocker.subject, 40),
     severity |-> "High", status |-> blocker.status]

\* seq[:n]
FirstN(seq, n) == IF Len(seq) <= n THEN seq ELSE SubSeq(seq, 1, n)

\* the status indicator of section B (lines 252-257)
status_indicator(metrics) ==
    IF metrics.blocked_count > 0 THEN "Off track"
    ELSE IF metrics.done_count < metrics.in_progress_count THEN "At risk"
    ELSE "On track"

\* the table written whatever total_hours is, with empty shares at 0
time_distribution_unguarded(metrics) ==
    LET total == IF metrics.total_hours > 0 THEN metrics.total_hours ELSE 1
    IN  <<[type |-> "Development", hours |-> metrics.dev_hours,
           pct |-> (metrics.dev_hours * 1000) \div total],
          [type |-> "QA/Testing", hours |-> metrics.qa_hours,
           pct |-> (metrics.qa_hours * 1000) \div total],
          [type |-> "Management", hours |-> metrics.management_hours,
           pct |-> (metrics.management_hours * 1000) \div total]>>

\* the time-distribution table (lines 334-341): hours and the share of
\* total_hours in tenths of a percent
time_distribution(metrics) ==
    IF metrics.total_hours > 0
    THEN <<[type |-> "Development", hours |-> metrics.dev_hours,
            pct |-> (metrics.dev_hours * 1000) \div metrics.total_hours],
           [type |-> "QA/Testing", hours |-> metrics.qa_hours,
            pct |-> (metrics.qa_hours * 1000) \div metrics.total_hours],
           [type |-> "Management", hours |-> metrics.management_hours,
            pct |-> (metrics.management_hours * 1000)
                        \div metrics.total_hours]>>
    ELSE <<>>

\* `status` when the appendix prints it: the de-scoped loop (line 323)
\* rebinds the name to the status of each de-scoped work package
appendix_status(metrics, grouped_wps) ==
    IF grouped_wps.de_scoped = <<>>
    THEN [indicator |-> status_indicator(metrics)]
    ELSE [status_name |->
             get(grouped_wps.de_scoped[Len(grouped_wps.de_scoped)].status_name,
                 <<"U","n","k","n","o","w","n">>)]

\* a str slice of a null subject raises TypeError
MarkdownRaises(project, work_packages, time_entries) ==
    \/ MetricsRaises(work_packages, time_entries)
    \/ \E k \in DOMAIN work_packages :
          /\ group_category(work_packages[k]) # "blocked"
          /\ work_packages[k].subject = None
    \/ \E k \in DOMAIN work_packages :
          /\ Contains(kw_blocked, filter_status_name(work_packages[k]))
          /\ work_packages[k].subject \in {None, Missing}

format_weekly_report_markdown(project, work_packages, time_entries, members, from_date, to_date, sprint_goal, team_name, relations) ==
    LET metrics == calculate_metrics(work_packages, time_entries)
        grouped_wps == group_by_status(work_packages)
        blockers == detect_blockers(work_packages, relations)
    IN  [from_date |-> from_date, to_date |-> to_date,
         team_name |-> team_name, sprint_goal |-> sprint_goal,
         project_id |-> project.id,
         status |-> status_indicator(metrics),
         key_deliverables |-> FirstN(grouped_wps.done, 3),
         main_impediment |-> Len(blockers),
         done |-> [k \in DOMAIN grouped_wps.done |->
                      format_work_package_row(grouped_wps.done[k])],
         in_progress |-> [k \in DOMAIN grouped_wps.in_progress |->
                      format_work_package_row(grouped_wps.in_progress[k])],
         planned |-> [k \in DOMAIN grouped_wps.planned |->
                      format_work_package_row(grouped_wps.planned[k])],
         de_scoped |-> [k \in DOMAIN grouped_wps.de_scoped |->
                      de_scoped_row(grouped_wps.de_scoped[k])],
         team_size |-> Len(members),
         total_hours |-> metrics.total_hours,
         time_distribution |-> time_distribution(metrics),
         impediments |-> [k \in DOMAIN blockers |-> blocker_row(blockers[k])],
         bug_count |-> metrics.bug_count,
         next_week |-> FirstN(grouped_wps.planned, 5),
         appendix |-> [status |-> appendix_status(metrics, grouped_wps),
                       done |-> metrics.done_count,
                       in_progress |-> metrics.in_progress_count,
                       planned |-> metrics.planned_count,
                       main_blockers |-> Len(blockers),
                       hours |-> metrics.total_hours]]

\* project.get('description', {}).get('raw', '') of a null description
JsonRaises(project, work_packages, time_entries) ==
    \/ MetricsRaises(work_packages, time_entries)
    \/ project.description = None

format_report_data_json(project, work_packages, time_entries, members, relations) ==
    LET metrics == calculate_metrics(work_packages, time_entries)
        grouped_wps == group_by_status(work_packages)
        blockers == detect_blockers(work_packages, relations)
    IN  [project |-> [id |-> project.id, name |-> project.name,
                      description |-> get(project.description, <<>>)],
         metrics |-> metrics,
         work_packages |-> [done |-> grouped_wps.done,
                            in_progress |-> grouped_wps.in_progress,
                            planned |-> grouped_wps.planned,
                            blocked |-> grouped_wps.blocked,
                            de_scoped |-> grouped_wps.de_scoped],
         time_entries |-> time_entries,
         members |-> members,
         blockers |-> blockers,
         relations |-> relations]

(***************************************************************************)
(* Strs of the inputs and of the collaborator's records.                   *)
(***************************************************************************)
L_Closed == <<"C","l","o","s","e","d">>
L_New == <<"N","e","w">>
L_InProgress == <<"I","n"," ","P","r","o","g","r","e","s","s">>
L_Blocked == <<"B","l","o","c","k","e","d">>
L_Rejected == <<"R","e","j","e","c","t","e","d">>
L_Triage == <<"T","r","i","a","g","e">>
L_Unknown == <<"U","n","k","n","o","w","n">>
L_BlockedInProgress == <<"B","l","o","c","k","e","d"," ","-"," ","i","n"," ","p","r","o","g","r","e","s","s">>
L_DONE == <<"D","O","N","E">>
L_Task == <<"T","a","s","k">>
L_Bug == <<"B","u","g">>
L_Fix == <<"F","i","x"," ","l","o","g","i","n">>
L_Development == <<"D","e","v","e","l","o","p","m","e","n","t">>
L_Meeting == <<"M","e","e","t","i","n","g">>
L_json == <<"j","s","o","n">>
L_JSON == <<"J","S","O","N">>
L_markdown == <<"m","a","r","k","d","o","w","n">>

(***************************************************************************)
(* The collaborator (the OpenProject client of src.server): the data it    *)
(* serves.  A server is [data, total]: it reports the constant total and   *)
(* serves records 1..total, min(page_size, total - offset) a page.         *)
(***************************************************************************)
PageSize == 500

T_InWindow == IsoTs(2025, 12, 5, 10, 30, 0, "Z")
T_Closed == IsoTs(2025, 12, 4, 9, 0, 0, "Z")
T_Old == IsoTs(2025, 10, 3, 12, 0, 0, "Z")

OldNew(k) ==
    WorkPackage(k, L_Fix, L_New, Missing, L_Task, T_Old, T_Old, NoTs, NoTs)

ServerRecord(server, k) ==
    CASE server.data = "scenario" ->
           CASE k = 1 -> WorkPackage(k, L_Fix, L_InProgress, Missing, L_Task,
                                     T_InWindow, T_Old, NoTs, NoTs)
             [] k = 2 -> WorkPackage(k, L_Fix, L_Closed, Missing, L_Bug,
                                     T_Old, T_Old, T_Closed, NoTs)
             [] OTHER -> OldNew(k)
      [] server.data = "scenario_last_day" ->
           CASE k = 1 -> WorkPackage(k, L_Fix, L_InProgress, Missing, L_Task,
                                     IsoTs(2025, 12, 8, 10, 0, 0, "Z"),
                                     T_Old, NoTs, NoTs)
             [] k = 2 -> WorkPackage(k, L_Fix, L_Closed, Missing, L_Bug,
                                     T_Old, T_Old, T_Closed, NoTs)
             [] OTHER -> OldNew(k)
      [] server.data = "bad_dates" ->
           CASE k = 1 -> WorkPackage(k, L_Fix, L_Closed, Missing, L_Task,
                                     BadTs, T_Old, NoTs, NoTs)
             [] k = 2 -> WorkPackage(k, L_Fix, L_New, Missing, L_Task,
                                     BadTs, T_InWindow, NoTs, NoTs)
             [] OTHER -> WorkPackage(k, Missing, L_Blocked, Missing, L_Task,
                                     T_InWindow, T_Old, NoTs, NoTs)
      [] server.data = "busy" ->
           IF k = 2 THEN OldNew(k)
           ELSE WorkPackage(k, L_Fix, L_InProgress, Missing, L_Task,
                            T_InWindow, T_Old, NoTs, NoTs)
      [] server.data = "null_status" ->
           CASE k = 1 -> WorkPackage(k, L_Fix, L_InProgress, Missing, L_Task,
                                     T_InWindow, T_Old, NoTs, NoTs)
             [] OTHER -> WorkPackage(k, L_Fix, None, Missing, L_Task,
                                     T_InWindow, T_Old, NoTs, NoTs)
      [] OTHER ->
           IF k % 250 = 1
           THEN WorkPackage(k, L_Fix,
                            IF k = 1 THEN L_Closed ELSE L_InProgress,
                            Missing, L_Task, T_InWindow, T_Old, NoTs, NoTs)
           ELSE OldNew(k)

\* the envelope the collaborator returns for a page request; a "no_total"
\* server leaves the total out, a "truncated" one reports server.total and
\* holds half a page at most
PageOf(server, offset, page_size) ==
    LET held == IF server.data = "truncated"
                THEN Min(server.total, PageSize \div 2)
                ELSE server.total
    IN  [has_total |-> server.data # "no_total",
         total |-> IF server.data = "zero_total" THEN 0 ELSE server.total,
         elements |-> [k \in 1..Min(page_size, Max(0, held - offset))
                         |-> ServerRecord(server, offset + k)]]

RelationProbeLimit == 10

Servers ==
    {[data |-> "scenario", total |-> 3, reliable |-> FALSE],
     [data |-> "scenario", total |-> 0, reliable |-> FALSE],
     [data |-> "scenario_last_day", total |-> 3, reliable |-> FALSE],
     [data |-> "bad_dates", total |-> 3, reliable |-> FALSE],
     [data |-> "null_status", total |-> 2, reliable |-> FALSE],
     [data |-> "large", total |-> PageSize + 1, reliable |-> FALSE],
     [data |-> "busy", total |-> RelationProbeLimit + 2, reliable |-> TRUE]}

Projects ==
    {[id |-> 5, name |-> L_Fix, description |-> Missing],
     [id |-> 5, name |-> L_Fix, description |-> None]}

MemberLists == {<<[name |-> L_Fix], [name |-> L_Task]>>}

TimeEntry(hours_kind, hours, activity_name) ==
    [hours_kind |-> hours_kind, hours |-> hours,
     activity_name |-> activity_name]

TimeEntryLists ==
    {<<>>,
     <<TimeEntry("number", 0, L_Development)>>,
     <<TimeEntry("number", 6, L_Development), TimeEntry("number", 2, L_Meeting)>>,
     <<TimeEntry("text", 0, L_Development)>>}

\* the elements of a relation listing for one work package
RelationsOf(work_package_id) ==
    <<[type |-> "blocks", from |-> work_package_id]>>

(***************************************************************************)
(* State.  Each invocation of a tool is a coroutine; pc[i] names the       *)
(* collaborator call it is suspended on ("idle" before it starts, "done"   *)
(* once it has returned).  The other per-invocation variables are the      *)
(* locals of the tool, under their names in the source.  calls is the      *)
(* sequence of requests issued to the collaborator, each with its outcome. *)
(***************************************************************************)
VARIABLES server, calls, pc, tool, input, today, from_dt, to_dt, project,
          offset, all_work_packages, work_packages, members, time_entries,
          relations, probe, result

vars == <<server, calls, pc, tool, input, today, from_dt, to_dt, project,
          offset, all_work_packages, work_packages, members, time_entries,
          relations, probe, result>>

InvIds == {1, 2}

NoDt == [ord |-> 0, sec |-> 0]
NoDate == [shape |-> "", y |-> 0, m |-> 0, d |-> 0]
NoInput == [project_id |-> 0, from_date |-> NoDate, to_date |-> NoDate,
            sprint_goal |-> None, team_name |-> None, format |-> <<>>]
NoProject == [id |-> 0, name |-> Missing, description |-> Missing]
NoResult == [kind |-> "none"]

\* json.dumps: the document keeps the structure it is given
json_dumps(value) == [json |-> value]

\* src.utils.formatting.format_error: a line that starts with a failure mark
format_error(message) == [kind |-> "error", message |-> message]

\* a handler that lets the exception through
except_Exception_reraise(tl) == [kind |-> "exception", message |-> tl]

\* the handler `except Exception as e: return format_error(...)` of a tool
except_Exception(tl) ==
    format_error(CASE tl = "get_report_data" -> "Failed to get report data"
                   [] tl = "generate_this_week_report" ->
                        "Failed to generate this week's report"
                   [] tl = "generate_last_week_report" ->
                        "Failed to generate last week's report"
                   [] OTHER -> "Failed to generate weekly report")

\* what leaves the try block of the implementation a tool runs
impl_of(tl) ==
    IF tl = "get_report_data" THEN "get_report_data"
    ELSE "_generate_weekly_report_impl"

Request(i, op) ==
    [inv |-> i, op |-> op, project_id |-> 0, filters |-> <<>>, offset |-> 0,
     page_size |-> 0, work_package_id |-> 0, outcome |-> "pending"]

\* filters = [{"status": {"operator": "*", "values": []}}]
status_filters ==
    json_dumps(<<[field |-> "status", operator |-> "*", values |-> <<>>]>>)

\* the page request with the filter sent for the first page only
PageRequest_first_page_only(i, project_id, page_offset) ==
    [Request(i, "get_work_packages") EXCEPT
        !.project_id = project_id,
        !.filters = IF page_offset = 0 THEN status_filters ELSE <<>>,
        !.offset = page_offset, !.page_size = PageSize]

\* client.get_work_packages(project_id, filters_json, offset, page_size)
PageRequest(i, project_id, page_offset) ==
    [Request(i, "get_work_packages") EXCEPT
        !.project_id = project_id, !.filters = status_filters,
        !.offset = page_offset, !.page_size = PageSize]

time_filters(inp) ==
    json_dumps(<<[field |-> "spentOn", operator |-> "<>d",
                  values |-> <<inp.from_date, inp.to_date>>],
                 [field |-> "project", operator |-> "=",
                  values |-> <<inp.project_id>>]>>)

\* the awaited call of invocation i gets its outcome
Settle(log, i, outcome) ==
    [k \in DOMAIN log |->
        IF log[k].inv = i /\ log[k].outcome = "pending"
        THEN [log[k] EXCEPT !.outcome = outcome]
        ELSE log[k]]

PendingCall(i) ==
    calls[CHOOSE k \in DOMAIN calls :
              calls[k].inv = i /\ calls[k].outcome = "pending"]

\* no invocation has started
InitLocals ==
    /\ calls = <<>>
    /\ pc = [i \in InvIds |-> "idle"]
    /\ tool = [i \in InvIds |-> "none"]
    /\ input = [i \in InvIds |-> NoInput]
    /\ today = [i \in InvIds |-> NoDt]
    /\ from_dt = [i \in InvIds |-> NoDt]
    /\ to_dt = [i \in InvIds |-> NoDt]
    /\ project = [i \in InvIds |-> NoProject]
    /\ offset = [i \in InvIds |-> 0]
    /\ all_work_packages = [i \in InvIds |-> <<>>]
    /\ work_packages = [i \in InvIds |-> <<>>]
    /\ members = [i \in InvIds |-> <<>>]
    /\ time_entries = [i \in InvIds |-> <<>>]
    /\ relations = [i \in InvIds |-> <<>>]
    /\ probe = [i \in InvIds |-> 0]
    /\ result = [i \in InvIds |-> NoResult]

Init ==
    /\ server \in Servers
    /\ InitLocals

\* the invocation returns res
Return(i, res) ==
    /\ pc' = [pc EXCEPT ![i] = "done"]
    /\ result' = [result EXCEPT ![i] = res]

\* an exception reaches the outer handler of the running tool
Raise(i, tl) == Return(i, except_Exception(impl_of(tl)))

(***************************************************************************)
(* Inputs of the tools.                                                    *)
(***************************************************************************)
DateInputs ==
    {DateText(2025, 12, 2), DateText(2025, 12, 8),
     [shape |-> "YYYY-M-D", y |-> 2025, m |-> 12, d |-> 2],
     DateText(2025, 13, 1),
     [shape |-> "DD/MM/YYYY", y |-> 2025, m |-> 12, d |-> 8]}

Formats == {L_markdown, L_JSON}

CalendarYears == 2024..2027

\* datetime.now(): the clock readings the model draws from, one for each
\* day of the week
NowTimes ==
    {[ord |-> Ordinal(2025, 12, 8), sec |-> 8 * 3600],
     [ord |-> Ordinal(2026, 12, 29), sec |-> 0],
     [ord |-> Ordinal(2025, 12, 10), sec |-> (24 * 3600) - 1],
     [ord |-> Ordinal(2026, 1, 1), sec |-> 12 * 3600],
     [ord |-> Ordinal(2024, 3, 1), sec |-> 9 * 3600],
     [ord |-> Ordinal(2025, 3, 1), sec |-> 18 * 3600],
     [ord |-> Ordinal(2025, 12, 14), sec |-> (23 * 3600) + 1800]}

\* date.fromordinal
FromOrdinal(n) ==
    CHOOSE t \in CalendarYears \X (1..12) \X (1..31) :
        ValidYMD(t[1], t[2], t[3]) /\ Ordinal(t[1], t[2], t[3]) = n

\* dt.strftime("%Y-%m-%d")
strftime(dt) ==
    LET t == FromOrdinal(dt.ord) IN DateText(t[1], t[2], t[3])

(***************************************************************************)
(* _generate_weekly_report_impl lines 100-115 and get_report_data lines    *)
(* 344-358: get_client, date validation, and the first await.              *)
(***************************************************************************)
Begin(i, tl, inp, client_ok) ==
    IF ~client_ok
    THEN /\ Raise(i, tl)
         /\ UNCHANGED <<calls, from_dt, to_dt>>
    ELSE IF strptime(inp.from_date) = ValueError
            \/ strptime(inp.to_date) = ValueError
    THEN /\ Return(i, format_error("Invalid date format. Use YYYY-MM-DD"))
         /\ UNCHANGED <<calls, from_dt, to_dt>>
    ELSE /\ from_dt' = [from_dt EXCEPT ![i] = strptime(inp.from_date)]
         /\ to_dt' = [to_dt EXCEPT ![i] = strptime(inp.to_date)]
         /\ IF ~DtLE(strptime(inp.from_date), strptime(inp.to_date))
            THEN /\ Return(i, format_error(
                        "from_date must be before or equal to to_date"))
                 /\ UNCHANGED calls
            ELSE /\ calls' = Append(calls,
                        [Request(i, "get_project") EXCEPT
                            !.project_id = inp.project_id])
                 /\ pc' = [pc EXCEPT ![i] = "get_project"]
                 /\ UNCHANGED result

generate_weekly_report(i) ==
    /\ pc[i] = "idle"
    /\ \E from_date \in DateInputs, to_date \in DateInputs,
          format \in Formats, client_ok \in BOOLEAN :
          LET inp == [project_id |-> 5, from_date |-> from_date,
                      to_date |-> to_date, sprint_goal |-> None,
                      team_name |-> None, format |-> format]
          IN  /\ tool' = [tool EXCEPT ![i] = "generate_weekly_report"]
              /\ input' = [input EXCEPT ![i] = inp]
              /\ Begin(i, "generate_weekly_report", inp, client_ok)
    /\ UNCHANGED <<server, today, project, offset, all_work_packages,
                   work_packages, members, time_entries, relations, probe>>

get_report_data(i) ==
    /\ pc[i] = "idle"
    /\ \E from_date \in DateInputs, to_date \in DateInputs,
          client_ok \in BOOLEAN :
          LET inp == [project_id |-> 5, from_date |-> from_date,
                      to_date |-> to_date, sprint_goal |-> None,
                      team_name |-> None, format |-> L_json]
          IN  /\ tool' = [tool EXCEPT ![i] = "get_report_data"]
              /\ input' = [input EXCEPT ![i] = inp]
              /\ Begin(i, "get_report_data", inp, client_ok)
    /\ UNCHANGED <<server, today, project, offset, all_work_packages,
                   work_packages, members, time_entries, relations, probe>>

\* generate_this_week_report (weeks_back 0) and generate_last_week_report
\* (weeks_back 1): the Monday-Sunday window, the input model (project_id
\* must be > 0), then the implementation
WeekReport(i, tl, weeks_back) ==
    /\ pc[i] = "idle"
    /\ \E now \in NowTimes, project_id \in {0, 5}, client_ok \in BOOLEAN :
          LET monday == minus_days(now, weekday(now) + (7 * weeks_back))
              sunday == minus_days(monday, -6)
              inp == [project_id |-> project_id,
                      from_date |-> strftime(monday),
                      to_date |-> strftime(sunday), sprint_goal |-> None,
                      team_name |-> None, format |-> L_markdown]
          IN  /\ tool' = [tool EXCEPT ![i] = tl]
              /\ today' = [today EXCEPT ![i] = now]
              /\ IF project_id > 0
                 THEN /\ input' = [input EXCEPT ![i] = inp]
                      /\ Begin(i, tl, inp, client_ok)
                 ELSE /\ Return(i, except_Exception(tl))
                      /\ UNCHANGED <<input, calls, from_dt, to_dt>>
    /\ UNCHANGED <<server, project, offset, all_work_packages,
                   work_packages, members, time_entries, relations, probe>>

generate_this_week_report(i) ==
    WeekReport(i, "generate_this_week_report", 0)

generate_last_week_report(i) ==
    WeekReport(i, "generate_last_week_report", 1)

(***************************************************************************)
(* The steps between two awaits.  Each Resume action is the return (or     *)
(* the failure) of the awaited call and everything the coroutine does up   *)
(* to its next await or its return.                                        *)
(***************************************************************************)
\* a collaborator call may fail, unless the server is one that never does
MayFail == ~server.reliable

\* the step with the first page and the memberships requested together
Resume_get_project_gather(i) ==
    /\ pc[i] = "get_project"
    /\ \/ /\ MayFail
          /\ calls' = Settle(calls, i, "raised")
          /\ Raise(i, tool[i])
          /\ UNCHANGED <<project, offset, all_work_packages>>
       \/ \E p \in Projects :
             /\ project' = [project EXCEPT ![i] = p]
             /\ all_work_packages' = [all_work_packages EXCEPT ![i] = <<>>]
             /\ offset' = [offset EXCEPT ![i] = 0]
             /\ calls' = Append(Append(Settle(calls, i, "returned"),
                                       PageRequest(i, input[i].project_id, 0)),
                                [Request(i, "get_memberships") EXCEPT
                                    !.project_id = input[i].project_id])
             /\ pc' = [pc EXCEPT ![i] = "get_work_packages"]
             /\ UNCHANGED result
    /\ UNCHANGED <<server, tool, input, today, from_dt, to_dt, work_packages,
                   members, time_entries, relations, probe>>

\* lines 115-127: the project arrives, the first page is requested
Resume_get_project(i) ==
    /\ pc[i] = "get_project"
    /\ \/ /\ MayFail
          /\ calls' = Settle(calls, i, "raised")
          /\ Raise(i, tool[i])
          /\ UNCHANGED <<project, offset, all_work_packages>>
       \/ \E p \in Projects :
             /\ project' = [project EXCEPT ![i] = p]
             /\ all_work_packages' = [all_work_packages EXCEPT ![i] = <<>>]
             /\ offset' = [offset EXCEPT ![i] = 0]
             /\ calls' = Append(Settle(calls, i, "returned"),
                                PageRequest(i, input[i].project_id, 0))
             /\ pc' = [pc EXCEPT ![i] = "get_work_packages"]
             /\ UNCHANGED result
    /\ UNCHANGED <<server, tool, input, today, from_dt, to_dt, work_packages,
                   members, time_entries, relations, probe>>

\* the loop that goes on until a page comes back empty
MorePages_total_optional(wp_result, page_offset) ==
    LET known == wp_result.has_total /\ wp_result.total # 0
    IN  /\ wp_result.elements # <<>>
        /\ known => ~(page_offset + PageSize >= wp_result.total)

MorePages_until_empty(wp_result, page_offset) ==
    wp_result.elements # <<>>

\* the loop test with > for >=
MorePages_past_total(wp_result, page_offset) ==
    LET total == IF wp_result.has_total THEN wp_result.total ELSE 0
    IN  /\ wp_result.elements # <<>>
        /\ ~(page_offset + PageSize > total)

\* lines 76-87 of _fetch_all_project_work_packages: TRUE when the loop
\* goes on to another page after this response
MorePages(wp_result, page_offset) ==
    LET total == IF wp_result.has_total THEN wp_result.total ELSE 0
    IN  /\ wp_result.elements # <<>>
        /\ ~(page_offset + PageSize >= total)

\* the step with the accumulated list kept in one list the invocations share
AfterFetch_shared(i, fetched) ==
    /\ all_work_packages' = [j \in InvIds |-> fetched]
    /\ UNCHANGED offset
    /\ IF tool[i] = "_fetch_all_project_work_packages"
       THEN /\ Return(i, [kind |-> "list", value |-> fetched])
            /\ calls' = Settle(calls, i, "returned")
            /\ UNCHANGED work_packages
       ELSE IF FilterRaises(fetched)
       THEN /\ Raise(i, tool[i])
            /\ calls' = Settle(calls, i, "returned")
            /\ UNCHANGED work_packages
       ELSE /\ work_packages' =
                  [work_packages EXCEPT ![i] =
                      filter_work_packages(fetched, from_dt[i], to_dt[i])]
            /\ calls' = Append(Settle(calls, i, "returned"),
                               [Request(i, "get_memberships") EXCEPT
                                   !.project_id = input[i].project_id])
            /\ pc' = [pc EXCEPT ![i] = "get_memberships"]
            /\ UNCHANGED result

\* lines 128-201: the fetched list is filtered, memberships are requested
AfterFetch(i, fetched) ==
    /\ all_work_packages' = [all_work_packages EXCEPT ![i] = fetched]
    /\ UNCHANGED offset
    /\ IF tool[i] = "_fetch_all_project_work_packages"
       THEN /\ Return(i, [kind |-> "list", value |-> fetched])
            /\ calls' = Settle(calls, i, "returned")
            /\ UNCHANGED work_packages
       ELSE IF FilterRaises(fetched)
       THEN /\ Raise(i, tool[i])
            /\ calls' = Settle(calls, i, "returned")
            /\ UNCHANGED work_packages
       ELSE /\ work_packages' =
                  [work_packages EXCEPT ![i] =
                      filter_work_packages(fetched, from_dt[i], to_dt[i])]
            /\ calls' = Append(Settle(calls, i, "returned"),
                               [Request(i, "get_memberships") EXCEPT
                                   !.project_id = input[i].project_id])
            /\ pc' = [pc EXCEPT ![i] = "get_memberships"]
            /\ UNCHANGED result

\* lines 67-89: one page arrives
Resume_get_work_packages(i) ==
    /\ pc[i] = "get_work_packages"
    /\ \/ /\ MayFail
          /\ calls' = Settle(calls, i, "raised")
          /\ IF tool[i] = "_fetch_all_project_work_packages"
             THEN Return(i, [kind |-> "exception"])
             ELSE Raise(i, tool[i])
          /\ UNCHANGED <<offset, all_work_packages, work_packages>>
       \/ LET wp_result == PageOf(server, PendingCall(i).offset,
                                  PendingCall(i).page_size)
              fetched == all_work_packages[i] \o wp_result.elements
          IN  IF MorePages(wp_result, offset[i])
              THEN /\ all_work_packages' =
                         [all_work_packages EXCEPT ![i] = fetched]
                   /\ offset' = [offset EXCEPT ![i] = offset[i] + PageSize]
                   /\ calls' = Append(Settle(calls, i, "returned"),
                                      PageRequest(i, PendingCall(i).project_id,
                                                  offset[i] + PageSize))
                   /\ UNCHANGED <<pc, result, work_packages>>
              ELSE AfterFetch(i, fetched)
    /\ UNCHANGED <<server, tool, input, today, from_dt, to_dt, project,
                   members, time_entries, relations, probe>>

\* lines 238-263 and 436-458: the payload, or the exception rendering raises
Render(i, tes, rels) ==
    IF tool[i] = "get_report_data"
    THEN IF JsonRaises(project[i], work_packages[i], tes)
         THEN Raise(i, tool[i])
         ELSE Return(i, [kind |-> "json", payload |-> json_dumps(
                  [metadata |-> [project_id |-> input[i].project_id,
                                 from_date |-> input[i].from_date,
                                 to_date |-> input[i].to_date,
                                 work_packages_count |-> Len(work_packages[i]),
                                 time_entries_count |-> Len(tes),
                                 members_count |-> Len(members[i])],
                   data |-> format_report_data_json(project[i],
                                work_packages[i], tes, members[i], <<>>)])])
    ELSE IF lower(input[i].format) = L_json
    THEN IF JsonRaises(project[i], work_packages[i], tes)
         THEN Raise(i, tool[i])
         ELSE Return(i, [kind |-> "json", payload |-> json_dumps(
                  format_report_data_json(project[i], work_packages[i], tes,
                                          members[i], rels))])
    ELSE IF MarkdownRaises(project[i], work_packages[i], tes)
         THEN Raise(i, tool[i])
         ELSE Return(i, [kind |-> "markdown", payload |->
                  format_weekly_report_markdown(project[i], work_packages[i],
                      tes, members[i], input[i].from_date, input[i].to_date,
                      input[i].sprint_goal, input[i].team_name, rels)])

\* the step with a failed membership fetch read as an empty team
Resume_get_memberships_tolerant(i) ==
    /\ pc[i] = "get_memberships"
    /\ \E failed \in BOOLEAN, elements \in MemberLists :
          /\ failed => MayFail
          /\ members' = [members EXCEPT ![i] =
                             IF failed THEN <<>> ELSE elements]
          /\ calls' = Append(Settle(calls, i, IF failed THEN "raised"
                                                        ELSE "returned"),
                             [Request(i, "get_time_entries") EXCEPT
                                 !.filters = time_filters(input[i])])
          /\ pc' = [pc EXCEPT ![i] = "get_time_entries"]
          /\ UNCHANGED result
    /\ UNCHANGED <<server, tool, input, today, from_dt, to_dt, project,
                   offset, all_work_packages, work_packages, time_entries,
                   relations, probe>>

\* lines 201-220: the members arrive, the time entries are requested
Resume_get_memberships(i) ==
    /\ pc[i] = "get_memberships"
    /\ \/ /\ MayFail
          /\ calls' = Settle(calls, i, "raised")
          /\ Raise(i, tool[i])
          /\ UNCHANGED members
       \/ \E elements \in MemberLists :
             /\ members' = [members EXCEPT ![i] = elements]
             /\ calls' = Append(Settle(calls, i, "returned"),
                                [Request(i, "get_time_entries") EXCEPT
                                    !.filters = time_filters(input[i])])
             /\ pc' = [pc EXCEPT ![i] = "get_time_entries"]
             /\ UNCHANGED result
    /\ UNCHANGED <<server, tool, input, today, from_dt, to_dt, project,
                   offset, all_work_packages, work_packages, time_entries,
                   relations, probe>>

\* the relation loop run over the whole relevant list
Probed_all(i) == work_packages[i]

\* the work packages the relation loop probes: work_packages[:10]
Probed(i) == FirstN(work_packages[i], RelationProbeLimit)

\* lines 220-236 (and 433-458): the time entries arrive; the report tools
\* start the relation probes, get_report_data renders
Resume_get_time_entries(i) ==
    /\ pc[i] = "get_time_entries"
    /\ \/ /\ MayFail
          /\ calls' = Settle(calls, i, "raised")
          /\ Raise(i, tool[i])
          /\ UNCHANGED <<time_entries, probe>>
       \/ \E elements \in TimeEntryLists :
             /\ time_entries' = [time_entries EXCEPT ![i] = elements]
             /\ IF tool[i] # "get_report_data" /\ Probed(i) # <<>>
                THEN /\ calls' = Append(Settle(calls, i, "returned"),
                                [Request(i, "get_relations") EXCEPT
                                    !.work_package_id = Probed(i)[1].id])
                     /\ probe' = [probe EXCEPT ![i] = 1]
                     /\ pc' = [pc EXCEPT ![i] = "get_relations"]
                     /\ UNCHANGED result
                ELSE /\ calls' = Settle(calls, i, "returned")
                     /\ Render(i, elements, <<>>)
                     /\ UNCHANGED probe
    /\ UNCHANGED <<server, tool, input, today, from_dt, to_dt, project,
                   offset, all_work_packages, work_packages, members,
                   relations>>

\* the step with a failed relation probe reaching the outer handler
Resume_get_relations_abort(i) ==
    /\ pc[i] = "get_relations"
    /\ \/ /\ MayFail
          /\ calls' = Settle(calls, i, "raised")
          /\ Raise(i, tool[i])
          /\ UNCHANGED <<relations, probe>>
       \/ LET rels == relations[i] \o RelationsOf(Probed(i)[probe[i]].id)
          IN  /\ relations' = [relations EXCEPT ![i] = rels]
              /\ IF probe[i] < Len(Probed(i))
                 THEN /\ calls' = Append(
                            Settle(calls, i, "returned"),
                            [Request(i, "get_relations") EXCEPT
                                !.work_package_id = Probed(i)[probe[i] + 1].id])
                      /\ probe' = [probe EXCEPT ![i] = probe[i] + 1]
                      /\ UNCHANGED <<pc, result>>
                 ELSE /\ calls' = Settle(calls, i, "returned")
                      /\ Render(i, time_entries[i], rels)
                      /\ UNCHANGED probe
    /\ UNCHANGED <<server, tool, input, today, from_dt, to_dt, project,
                   offset, all_work_packages, work_packages, members,
                   time_entries>>

\* lines 228-263: one relation probe ends (a failure is passed over), the
\* next one starts or the report is rendered
Resume_get_relations(i) ==
    /\ pc[i] = "get_relations"
    /\ \E ok \in BOOLEAN :
          LET rels == IF ok
                      THEN relations[i] \o RelationsOf(Probed(i)[probe[i]].id)
                      ELSE relations[i]
          IN  /\ ok \/ MayFail
              /\ relations' = [relations EXCEPT ![i] = rels]
              /\ IF probe[i] < Len(Probed(i))
                 THEN /\ calls' = Append(
                            Settle(calls, i, IF ok THEN "returned" ELSE "raised"),
                            [Request(i, "get_relations") EXCEPT
                                !.work_package_id = Probed(i)[probe[i] + 1].id])
                      /\ probe' = [probe EXCEPT ![i] = probe[i] + 1]
                      /\ UNCHANGED <<pc, result>>
                 ELSE /\ calls' =
                            Settle(calls, i, IF ok THEN "returned" ELSE "raised")
                      /\ Render(i, time_entries[i], rels)
                      /\ UNCHANGED probe
    /\ UNCHANGED <<server, tool, input, today, from_dt, to_dt, project,
                   offset, all_work_packages, work_packages, members,
                   time_entries>>

Step(i) ==
    \/ generate_weekly_report(i)
    \/ get_report_data(i)
    \/ generate_this_week_report(i)
    \/ generate_last_week_report(i)
    \/ Resume_get_project(i)
    \/ Resume_get_work_packages(i)
    \/ Resume_get_memberships(i)
    \/ Resume_get_time_entries(i)
    \/ Resume_get_relations(i)

Next == Step(1)

Spec == Init /\ [][Next]_vars

(***************************************************************************)
(* _fetch_all_project_work_packages called on its own, against servers     *)
(* that never fail and hold 1..MaxTotal records.                           *)
(***************************************************************************)
MaxTotal == 1501

FetchServers ==
    {[data |-> "large", total |-> t, reliable |-> TRUE] : t \in 1..MaxTotal}

InitFetch ==
    /\ server \in FetchServers
    /\ InitLocals

\* lines 58-74: the call, up to its first await
fetch_all_project_work_packages(i) ==
    /\ pc[i] = "idle"
    /\ tool' = [tool EXCEPT ![i] = "_fetch_all_project_work_packages"]
    /\ input' = [input EXCEPT ![i] = [NoInput EXCEPT !.project_id = 5]]
    /\ all_work_packages' = [all_work_packages EXCEPT ![i] = <<>>]
    /\ offset' = [offset EXCEPT ![i] = 0]
    /\ calls' = Append(calls, PageRequest(i, 5, 0))
    /\ pc' = [pc EXCEPT ![i] = "get_work_packages"]
    /\ UNCHANGED <<server, today, from_dt, to_dt, project, work_packages,
                   members, time_entries, relations, probe, result>>

NextFetch ==
    \/ fetch_all_project_work_packages(1)
    \/ Resume_get_work_packages(1)

SpecFetch == InitFetch /\ [][NextFetch]_vars

(***************************************************************************)
(* The relevance loop on its own: each step is one iteration of            *)
(* `for wp in all_work_packages` on a work package drawn from FilterItems, *)
(* for a window drawn from FilterWindows.                                  *)
(***************************************************************************)
MaxFilterItems == 2

T_From0000 == IsoTs(2025, 12, 2, 0, 0, 0, "Z")
T_To0000 == IsoTs(2025, 12, 8, 0, 0, 0, "Z")
T_To0001 == IsoTs(2025, 12, 8, 0, 0, 1, "Z")
T_To2359 == IsoTs(2025, 12, 8, 23, 59, 0, "Z")
T_To235959 == IsoTs(2025, 12, 8, 23, 59, 59, "+07:00")
T_PastTo == IsoTs(2025, 12, 9, 0, 0, 0, "Z")
T_BeforeFrom == IsoTs(2025, 12, 1, 23, 59, 59, "Z")
T_Lookback == IsoTs(2025, 11, 20, 9, 0, 0, "Z")
T_Cutoff == IsoTs(2025, 11, 8, 0, 0, 0, "Z")
T_BeforeCutoff == IsoTs(2025, 11, 7, 23, 59, 59, "Z")

L_Unresolved == <<"U","n","r","e","s","o","l","v","e","d">>

FilterItems ==
    {WorkPackage(1, L_Fix, L_New, Missing, L_Task, upd, T_Old, NoTs, NoTs) :
        upd \in {NoTs, BadTs, T_From0000, T_To0000, T_To0001, T_To2359,
                 T_To235959, T_PastTo, T_BeforeFrom, T_InWindow, T_Old}}
    \cup
    {WorkPackage(1, L_Fix, L_Closed, Missing, L_Task, upd, T_Old, NoTs,
                 NoTs) :
        upd \in {BadTs, T_InWindow, T_PastTo, T_Lookback, T_Cutoff,
                 T_BeforeCutoff, T_Old}}
    \cup
    {WorkPackage(2, L_Fix, st, Missing, L_Task, T_Old, cr, NoTs, NoTs) :
        st \in {L_New, L_DONE},
        cr \in {NoTs, BadTs, T_InWindow, T_To2359}}
    \cup
    {WorkPackage(3, L_Fix, st, Missing, L_Bug, T_Old, T_Old, c[1], c[2]) :
        st \in {L_New, L_Closed, L_Unresolved},
        c \in {<<T_Closed, NoTs>>, <<NoTs, T_Closed>>, <<BadTs, NoTs>>,
               <<T_Old, T_Closed>>}}
    \cup
    {WorkPackage(4, L_Fix, None, Missing, L_Task, T_InWindow, T_Old, NoTs,
                 NoTs),
     WorkPackage(4, L_Fix, L_New, Missing, L_Task, NoTs, NoTs, NoTs, NoTs),
     WorkPackage(4, L_Fix, L_Unresolved, Missing, L_Task, T_Lookback, T_Old,
                 NoTs, NoTs),
     WorkPackage(5, L_Fix, L_Closed, Missing, L_Task, T_InWindow, T_InWindow,
                 T_Closed, NoTs),
     WorkPackage(5, L_Fix, L_Closed, Missing, L_Task, T_InWindow, BadTs,
                 NoTs, NoTs)}

FilterWindows ==
    {<<DateText(2025, 12, 2), DateText(2025, 12, 8)>>,
     <<DateText(2025, 12, 8), DateText(2025, 12, 8)>>}

InitFilter ==
    /\ server \in {[data |-> "scenario", total |-> 0, reliable |-> TRUE]}
    /\ calls = <<>>
    /\ pc = [i \in InvIds |-> IF i = 1 THEN "filter" ELSE "idle"]
    /\ tool = [i \in InvIds |->
                  IF i = 1 THEN "generate_weekly_report" ELSE "none"]
    /\ \E w \in FilterWindows :
          /\ input = [i \in InvIds |->
                         IF i = 1
                         THEN [NoInput EXCEPT !.project_id = 5,
                                              !.from_date = w[1],
                                              !.to_date = w[2]]
                         ELSE NoInput]
          /\ from_dt = [i \in InvIds |->
                           IF i = 1 THEN strptime(w[1]) ELSE NoDt]
          /\ to_dt = [i \in InvIds |->
                         IF i = 1 THEN strptime(w[2]) ELSE NoDt]
    /\ today = [i \in InvIds |-> NoDt]
    /\ project = [i \in InvIds |-> NoProject]
    /\ offset = [i \in InvIds |-> 0]
    /\ all_work_packages = [i \in InvIds |-> <<>>]
    /\ work_packages = [i \in InvIds |-> <<>>]
    /\ members = [i \in InvIds |-> <<>>]
    /\ time_entries = [i \in InvIds |-> <<>>]
    /\ relations = [i \in InvIds |-> <<>>]
    /\ probe = [i \in InvIds |-> 0]
    /\ result = [i \in InvIds |-> NoResult]

\* the loop body with no `continue` after an append
FilterItem_no_continue(i) ==
    /\ pc[i] = "filter"
    /\ Len(all_work_packages[i]) < MaxFilterItems
    /\ \E wp \in FilterItems :
          /\ all_work_packages' =
                 [all_work_packages EXCEPT ![i] = Append(@, wp)]
          /\ IF StatusNameRaises(wp)
             THEN /\ Raise(i, tool[i])
                  /\ UNCHANGED work_packages
             ELSE LET within(ts) == ParsedWithin(ts, from_dt[i], to_dt[i])
                      copy(cond) == IF cond THEN <<wp>> ELSE <<>>
                      closed == is_closed_status(wp)
                      by_updated == copy(within(wp.updatedAt))
                      by_created == copy(within(wp.createdAt))
                      by_lookback ==
                          copy(closed /\ ParsedWithin(wp.updatedAt,
                                   minus_days(to_dt[i], LookbackDays),
                                   to_dt[i]))
                      by_closed_on == copy(closed /\ within(closed_on(wp)))
                      by_except == copy(closed)
                      appended ==
                          IF ParseFails(wp.updatedAt) THEN by_except
                          ELSE IF ParseFails(wp.createdAt)
                          THEN by_updated \o by_except
                          ELSE IF closed /\ ParseFails(closed_on(wp))
                          THEN by_updated \o by_created \o by_lookback
                                   \o by_except
                          ELSE by_updated \o by_created \o by_lookback
                                   \o by_closed_on
                  IN  /\ work_packages' =
                            [work_packages EXCEPT ![i] = @ \o appended]
                      /\ UNCHANGED <<pc, result>>
    /\ UNCHANGED <<server, calls, tool, input, today, from_dt, to_dt,
                   project, offset, members, time_entries, relations, probe>>

\* lines 140-188: the loop body runs on the next work package
FilterItem(i) ==
    /\ pc[i] = "filter"
    /\ Len(all_work_packages[i]) < MaxFilterItems
    /\ \E wp \in FilterItems :
          /\ all_work_packages' =
                 [all_work_packages EXCEPT ![i] = Append(@, wp)]
          /\ IF StatusNameRaises(wp)
             THEN /\ Raise(i, tool[i])
                  /\ UNCHANGED work_packages
             ELSE /\ work_packages' =
                        [work_packages EXCEPT ![i] =
                            IF is_relevant(wp, from_dt[i], to_dt[i])
                            THEN Append(@, wp) ELSE @]
                  /\ UNCHANGED <<pc, result>>
    /\ UNCHANGED <<server, calls, tool, input, today, from_dt, to_dt,
                   project, offset, members, time_entries, relations, probe>>

NextFilter == FilterItem(1)

SpecFilter == InitFilter /\ [][NextFilter]_vars

(***************************************************************************)
(* The two renderers on their own: the relevant list is built one work     *)
(* package at a time from ReportItems, then rendered.                      *)
(***************************************************************************)
MaxReportItems == 2

ReportItems ==
    {WorkPackage(1, L_Fix, st, Missing, L_Task, T_InWindow, T_Old, NoTs,
                 NoTs) :
        st \in {L_Closed, L_InProgress, L_Blocked, L_Rejected, L_New,
                L_Triage, L_BlockedInProgress, L_DONE, None}}
    \cup
    {WorkPackage(2, L_Fix, st, title, L_Task, T_InWindow, T_Old, NoTs,
                 NoTs) :
        st \in {<<>>, L_Unknown, Missing},
        title \in {Missing, L_Blocked, L_Closed}}
    \cup
    {WorkPackage(3, subject, st, Missing, L_Bug, T_InWindow, T_Old, NoTs,
                 NoTs) :
        subject \in {Missing, None}, st \in {L_Blocked, L_Closed}}
    \cup
    {WorkPackage(4, L_Fix, L_New, None, None, T_InWindow, T_Old, NoTs, NoTs),
     WorkPackage(4, L_Fix, <<>>, None, L_Task, T_InWindow, T_Old, NoTs, NoTs)}

InitReport ==
    /\ server \in {[data |-> "scenario", total |-> 0, reliable |-> TRUE]}
    /\ calls = <<>>
    /\ pc = [i \in InvIds |-> IF i = 1 THEN "format" ELSE "idle"]
    /\ tool = [i \in InvIds |-> "none"]
    /\ input = [i \in InvIds |->
                   IF i = 1
                   THEN [NoInput EXCEPT !.project_id = 5,
                                        !.from_date = DateText(2025, 12, 2),
                                        !.to_date = DateText(2025, 12, 8)]
                   ELSE NoInput]
    /\ today = [i \in InvIds |-> NoDt]
    /\ from_dt = [i \in InvIds |-> NoDt]
    /\ to_dt = [i \in InvIds |-> NoDt]
    /\ \E p \in Projects :
          project = [i \in InvIds |-> IF i = 1 THEN p ELSE NoProject]
    /\ offset = [i \in InvIds |-> 0]
    /\ all_work_packages = [i \in InvIds |-> <<>>]
    /\ work_packages = [i \in InvIds |-> <<>>]
    /\ members = [i \in InvIds |-> <<>>]
    /\ \E tes \in TimeEntryLists :
          time_entries = [i \in InvIds |-> IF i = 1 THEN tes ELSE <<>>]
    /\ relations = [i \in InvIds |-> <<>>]
    /\ probe = [i \in InvIds |-> 0]
    /\ result = [i \in InvIds |-> NoResult]

\* the caller's list grows by one relevant work package
AddWorkPackage(i) ==
    /\ pc[i] = "format"
    /\ Len(work_packages[i]) < MaxReportItems
    /\ \E wp \in ReportItems :
          work_packages' = [work_packages EXCEPT ![i] = Append(@, wp)]
    /\ UNCHANGED <<server, calls, pc, tool, input, today, from_dt, to_dt,
                   project, offset, all_work_packages, members, time_entries,
                   relations, probe, result>>

\* format_weekly_report_markdown is called; an exception leaves it
FormatMarkdown(i) ==
    /\ pc[i] = "format"
    /\ tool' = [tool EXCEPT ![i] = "format_weekly_report_markdown"]
    /\ Return(i, IF MarkdownRaises(project[i], work_packages[i],
                                   time_entries[i])
                 THEN [kind |-> "exception"]
                 ELSE [kind |-> "markdown", payload |->
                          format_weekly_report_markdown(project[i],
                              work_packages[i], time_entries[i], members[i],
                              input[i].from_date, input[i].to_date,
                              input[i].sprint_goal, input[i].team_name,
                              relations[i])])
    /\ UNCHANGED <<server, calls, input, today, from_dt, to_dt, project,
                   offset, all_work_packages, work_packages, members,
                   time_entries, relations, probe>>

\* format_report_data_json is called and its result serialised
FormatJson(i) ==
    /\ pc[i] = "format"
    /\ tool' = [tool EXCEPT ![i] = "format_report_data_json"]
    /\ Return(i, IF JsonRaises(project[i], work_packages[i], time_entries[i])
                 THEN [kind |-> "exception"]
                 ELSE [kind |-> "json", payload |-> json_dumps(
                          format_report_data_json(project[i],
                              work_packages[i], time_entries[i], members[i],
                              relations[i]))])
    /\ UNCHANGED <<server, calls, input, today, from_dt, to_dt, project,
                   offset, all_work_packages, work_packages, members,
                   time_entries, relations, probe>>

NextReport ==
    \/ AddWorkPackage(1)
    \/ FormatMarkdown(1)
    \/ FormatJson(1)

SpecReport == InitReport /\ [][NextReport]_vars

(***************************************************************************)
(* calculate_metrics, group_by_status and detect_blockers called on their  *)
(* own, on lists of work packages that differ in their status and type     *)
(* fields only, and on lists of time entries.                              *)
(***************************************************************************)
MaxClassifyItems == 2

ClassifyLabels ==
    {L_Closed, L_DONE, L_InProgress, L_Blocked, L_Rejected, L_New, L_Triage,
     L_BlockedInProgress, L_Unresolved,
     <<"R","e","s","o","l","v","e","d">>,
     <<"C","o","m","p","l","e","t","e","d">>,
     <<"F","i","n","i","s","h","e","d">>,
     <<"I","n"," ","d","e","v","e","l","o","p","m","e","n","t">>,
     <<"I","m","p","l","e","m","e","n","t","i","n","g">>,
     <<"C","a","n","c","e","l","l","e","d">>, <<"O","p","e","n">>,
     <<"S","p","e","c","i","f","i","e","d">>, <<"T","o"," ","D","o">>,
     <<"U","N","K","N","O","W","N">>,
     <<"D","o","n","e"," ","-"," ","b","l","o","c","k","e","d">>,
     <<"R","e","j","e","c","t","e","d"," ","(","r","e","o","p","e","n","e","d",")">>,
     <<"N","e","w"," ","-"," ","b","l","o","c","k","e","d">>,
     <<"A","b","a","n","d","o","n","e","d">>}

ClassifyItems ==
    {WorkPackage(1, L_Fix, label, Missing, L_Task, T_InWindow, T_Old, NoTs,
                 NoTs) : label \in ClassifyLabels}
    \cup
    {WorkPackage(2, L_Fix, label, title, L_Task, T_InWindow, T_Old, NoTs,
                 NoTs) :
        label \in {<<>>, L_Unknown, Missing},
        title \in {Missing, <<>>, L_Unknown, L_Blocked, L_Closed}}
    \cup
    {WorkPackage(3, L_Fix, L_Closed, L_Blocked, L_Task, T_InWindow, T_Old,
                 NoTs, NoTs),
     WorkPackage(3, L_Fix, L_Triage, L_Closed, L_Task, T_InWindow, T_Old,
                 NoTs, NoTs)}
    \cup
    {WorkPackage(4, L_Fix, L_InProgress, Missing, type, T_InWindow, T_Old,
                 NoTs, NoTs) :
        type \in {L_Bug, <<"D","e","f","e","c","t">>,
                  <<"F","e","a","t","u","r","e">>,
                  <<"U","s","e","r"," ","s","t","o","r","y">>,
                  <<"B","u","g"," ","t","a","s","k">>,
                  <<"E","p","i","c">>, Missing}}
    \cup
    {WorkPackage(5, L_Fix, L_Closed, Missing, <<"D","E","F","E","C","T">>,
                 T_InWindow, T_Old, NoTs, NoTs)}

MaxHoursEntries == 3

\* time entries as the client returns them: hours 0.1, 0.1 and 1.1 (floats
\* nearest to the decimal fractions), whole hours, 2.5; activities that match
\* one bucket, two buckets, or none
HoursEntries ==
    {TimeEntry("float",
         [e |-> -4,
          m |-> <<1,1,0,0,1,1,0,0,1,1,0,0,1,1,0,0,1,1,0,0,1,1,0,0,1,1,0,
                0,1,1,0,0,1,1,0,0,1,1,0,0,1,1,0,0,1,1,0,0,1,1,0,1,0>>],
         L_Development),
     TimeEntry("float",
         [e |-> -4,
          m |-> <<1,1,0,0,1,1,0,0,1,1,0,0,1,1,0,0,1,1,0,0,1,1,0,0,1,1,0,
                0,1,1,0,0,1,1,0,0,1,1,0,0,1,1,0,0,1,1,0,0,1,1,0,1,0>>],
         <<"T","e","s","t","i","n","g">>),
     TimeEntry("float",
         [e |-> 0,
          m |-> <<1,0,0,0,1,1,0,0,1,1,0,0,1,1,0,0,1,1,0,0,1,1,0,0,1,1,0,
                0,1,1,0,0,1,1,0,0,1,1,0,0,1,1,0,0,1,1,0,0,1,1,0,1,0>>],
         L_Development),
     TimeEntry("number", 3,
         <<"I","m","p","l","e","m","e","n","t","i","n","g"," ","t","e","s","t","s">>),
     TimeEntry("number", 2, <<"Q","A"," ","m","e","e","t","i","n","g">>),
     TimeEntry("number", 1, L_Meeting),
     TimeEntry("float",
         [e |-> 1,
          m |-> <<1,0,1,0,0,0,0,0,0,0,0,0,0,0,0,0,0,0,0,0,0,0,0,0,0,0,0,
                0,0,0,0,0,0,0,0,0,0,0,0,0,0,0,0,0,0,0,0,0,0,0,0,0,0>>],
         <<"S","u","p","p","o","r","t">>)}

\* calculate_metrics(work_packages, time_entries), group_by_status(
\* work_packages) and detect_blockers(work_packages, relations) are called on
\* a list of at most MaxClassifyItems work packages, or on no work package
\* and at most MaxHoursEntries time entries
classify(i) ==
    /\ pc[i] = "idle"
    /\ \E n \in 0..MaxClassifyItems :
          \E wps \in [1..n -> ClassifyItems] :
             /\ work_packages' = [work_packages EXCEPT ![i] = wps]
             /\ tool' = [tool EXCEPT ![i] = "group_by_status"]
             /\ \E rels \in {<<>>, RelationsOf(1)} :
                \E h \in 0..(IF n = 0 /\ rels = <<>> THEN MaxHoursEntries ELSE 0) :
                \E tes \in [1..h -> HoursEntries] :
                   /\ relations' = [relations EXCEPT ![i] = rels]
                   /\ time_entries' = [time_entries EXCEPT ![i] = tes]
                   /\ Return(i, [kind |-> "groups",
                                 groups |-> group_by_status(wps),
                                 metrics |-> calculate_metrics(wps, tes),
                                 blockers |-> detect_blockers(wps, rels)])
    /\ UNCHANGED <<server, calls, input, today, from_dt, to_dt, project,
                   offset, all_work_packages, members, probe>>

InitClassify ==
    /\ server = [data |-> "scenario", total |-> 0, reliable |-> TRUE]
    /\ InitLocals

NextClassify == classify(1)

SpecClassify == InitClassify /\ [][NextClassify]_vars

(***************************************************************************)
(* _fetch_all_project_work_packages against collaborators that answer as   *)
(* they like within a bounded total: the plain ones, ones that hold fewer  *)
(* records than the total they report, and ones that report no total.  An  *)
(* awaited request is answered, hence the fairness on the steps.           *)
(***************************************************************************)
InitPaging ==
    /\ server \in
          {[data |-> d, total |-> t, reliable |-> TRUE] :
              d \in {"large", "truncated", "no_total", "zero_total"},
              t \in {0, 1, PageSize \div 2, PageSize - 1, PageSize,
                     PageSize + 1, PageSize + (PageSize \div 2),
                     (2 * PageSize) - 1, 2 * PageSize, (2 * PageSize) + 1,
                     (2 * PageSize) + (PageSize \div 2), MaxTotal - 1,
                     MaxTotal}}
    /\ InitLocals

NextPaging ==
    \/ fetch_all_project_work_packages(1)
    \/ Resume_get_work_packages(1)

SpecPaging == InitPaging /\ [][NextPaging]_vars /\ WF_vars(NextPaging)

(***************************************************************************)
(* Two invocations at once.  The event loop runs one coroutine at a time   *)
(* and switches only at an await, so a run is an interleaving of the steps *)
(* of the two invocations.  Both talk to one collaborator; invocation 1    *)
(* reports on 2025-12-02..2025-12-08 and invocation 2 on the single day    *)
(* 2025-12-08, with a configured client.                                   *)
(***************************************************************************)
\* a report tool against the small collaborator, the fetch helper on its
\* own against the two-page one
ConcurrentStart(i) ==
    \/ /\ server.data # "large"
       /\ generate_weekly_report(i) \/ get_report_data(i)
       /\ pc'[i] = "get_project"
       /\ input'[i].from_date = DateText(2025, 12, IF i = 1 THEN 2 ELSE 8)
       /\ input'[i].to_date = DateText(2025, 12, 8)
       /\ input'[i].format # L_markdown
    \/ /\ server.data = "large"
       /\ fetch_all_project_work_packages(i)

ConcurrentStep(i) ==
    \/ ConcurrentStart(i)
    \/ Resume_get_project(i) /\ project'[i].description # None
    \/ Resume_get_work_packages(i)
    \/ Resume_get_memberships(i)
    \/ /\ Resume_get_time_entries(i)
       /\ result'[i].kind = "error" \/ Len(time_entries'[i]) = 2
    \/ Resume_get_relations(i)

InitConcurrent ==
    /\ server \in {[data |-> "bad_dates", total |-> 3, reliable |-> FALSE],
                   [data |-> "large", total |-> PageSize + 1,
                    reliable |-> TRUE]}
    /\ InitLocals

NextConcurrent == \E i \in InvIds : ConcurrentStep(i)

SpecConcurrent == InitConcurrent /\ [][NextConcurrent]_vars

(***************************************************************************)
(* Claims.                                                                 *)
(***************************************************************************)
\* the page requests invocation i has issued, in order
PageRequests(i) ==
    SelectSeq(calls, LAMBDA c : c.inv = i /\ c.op = "get_work_packages")

CeilDiv(a, b) == (a + b - 1) \div b

\* C2: against a server that reports the constant total T >= 1 and serves
\* min(500, T - offset) records a page, the fetcher issues exactly
\* ceil(T / 500) page requests, at offsets 0, 500, 1000, ... in that order,
\* and returns exactly the T server records, each once and in order; a
\* total that is a multiple of 500 gives T / 500 requests.
C2_PaginationExact ==
    (pc[1] = "done" /\ tool[1] = "_fetch_all_project_work_packages") =>
        LET reqs == PageRequests(1)
        IN  /\ Len(reqs) = CeilDiv(server.total, PageSize)
            /\ (server.total % PageSize = 0 =>
                    Len(reqs) = server.total \div PageSize)
            /\ \A k \in DOMAIN reqs : reqs[k].offset = (k - 1) * PageSize
            /\ Len(calls) = Len(reqs)
            /\ result[1].kind = "list"
            /\ Len(result[1].value) = server.total
            /\ result[1].value =
                   [k \in 1..server.total |-> ServerRecord(server, k)]
            /\ \A k \in DOMAIN result[1].value : result[1].value[k].id = k

\* C2 witness: total 1234 fetched with three page requests
C2_Witness ==
    /\ pc[1] = "done"
    /\ tool[1] = "_fetch_all_project_work_packages"
    /\ server.total = 1234
    /\ Len(PageRequests(1)) = 3
    /\ PageRequests(1)[3].offset = 1000
    /\ Len(result[1].value) = 1234

\* the work package the relevance loop handled last, and whether it kept it
LastHandled(i) == all_work_packages[i][Len(all_work_packages[i])]

LastKept(i) ==
    /\ work_packages[i] # <<>>
    /\ work_packages[i][Len(work_packages[i])] = LastHandled(i)

\* a timestamp text that names the calendar day of a date text
OnDay(ts, date) ==
    ts.shape = "iso" /\ ts.y = date.y /\ ts.m = date.m /\ ts.d = date.d

\* C1: window inclusivity of the relevance filter: a work package whose
\* updatedAt is `from` at 00:00 is relevant, one whose updatedAt is `to` at
\* 23:59 is relevant, and one whose updatedAt is one second past the end of
\* `to`, with nothing else placing it in the window, is not relevant.
C1_WindowInclusive ==
    (pc[1] = "filter" /\ all_work_packages[1] # <<>>) =>
        LET wp == LastHandled(1)
        IN  /\ (OnDay(wp.updatedAt, input[1].from_date)
                  /\ wp.updatedAt.sec = 0) => LastKept(1)
            /\ (OnDay(wp.updatedAt, input[1].to_date)
                  /\ wp.updatedAt.sec = (23 * 3600) + (59 * 60))
                 => LastKept(1)
            /\ (/\ wp.updatedAt = T_PastTo
                /\ input[1].to_date = DateText(2025, 12, 8)
                /\ wp.createdAt = T_Old
                /\ ~Truthy(wp.closedOn) /\ ~Truthy(wp.closedAt))
                 => ~LastKept(1)

\* C3: every work-package page request, first and later pages alike, carries
\* the status filter with operator "*" and page size 500.
C3_EveryPageFiltered ==
    \A k \in DOMAIN calls :
        calls[k].op = "get_work_packages" =>
            /\ calls[k].filters =
                   [json |-> <<[field |-> "status", operator |-> "*",
                                values |-> <<>>]>>]
            /\ calls[k].page_size = 500

\* C3 witness: a second page has been requested after the first one
C3_Witness ==
    /\ Len(PageRequests(1)) = 2
    /\ PageRequests(1)[1].offset = 0
    /\ PageRequests(1)[1].outcome = "returned"
    /\ PageRequests(1)[2].offset = 500
    /\ tool[1] = "get_report_data"

\* the lists of the structured-data output, in the order of the category set
JsonGroups(i) ==
    LET groups == result[i].payload.json.work_packages
    IN  <<groups.done, groups.in_progress, groups.planned, groups.blocked,
          groups.de_scoped>>

Occurrences(seq, x) == Cardinality({k \in DOMAIN seq : seq[k] = x})

\* C4: group_by_status puts every relevant work package in exactly one of
\* done, in_progress, planned, blocked, de_scoped and leaves `other` empty;
\* the five lists of the structured-data output have the grouping's lengths,
\* which sum to the number of relevant work packages.
C4_GroupingPartition ==
    (pc[1] = "done" /\ result[1].kind = "json") =>
        LET grouped == group_by_status(work_packages[1])
            lists == JsonGroups(1)
        IN  /\ grouped.other = <<>>
            /\ lists = <<grouped.done, grouped.in_progress, grouped.planned,
                         grouped.blocked, grouped.de_scoped>>
            /\ Len(lists[1]) + Len(lists[2]) + Len(lists[3]) + Len(lists[4])
                   + Len(lists[5]) = Len(work_packages[1])
            /\ \A k \in DOMAIN work_packages[1] :
                  LET wp == work_packages[1][k]
                      holders == {j \in 1..5 : Occurrences(lists[j], wp) > 0}
                  IN  /\ Cardinality(holders) = 1
                      /\ \A j \in holders :
                            Occurrences(lists[j], wp) =
                                Occurrences(work_packages[1], wp)

\* C4 witness: a de-scoped work package and one whose status matches no
\* keyword have been grouped and rendered
C4_Witness ==
    /\ pc[1] = "done"
    /\ result[1].kind = "json"
    /\ Len(work_packages[1]) = 2
    /\ work_packages[1][1].status_name = L_Rejected
    /\ work_packages[1][2].status_name = L_Triage
    /\ Len(JsonGroups(1)[5]) = 1
    /\ Len(JsonGroups(1)[3]) = 1

\* C5: the status counters of calculate_metrics agree with group_by_status:
\* done_count, in_progress_count, planned_count and blocked_count are the
\* sizes of the done, in_progress, planned and blocked groups.
C5_CountersMatchGroups ==
    (pc[1] = "done" /\ result[1].kind = "json") =>
        LET metrics == result[1].payload.json.metrics
            lists == JsonGroups(1)
        IN  /\ metrics.done_count = Len(lists[1])
            /\ metrics.in_progress_count = Len(lists[2])
            /\ metrics.planned_count = Len(lists[3])
            /\ metrics.blocked_count = Len(lists[4])

\* C6: each work package increments exactly one of done_count,
\* in_progress_count, planned_count, blocked_count, so the four counters sum
\* to total_wps (a de-scoped work package is counted in planned_count, so no
\* de-scoped count is left out of the sum).
C6_MetricsConservation ==
    (pc[1] = "done" /\ result[1].kind = "json") =>
        LET metrics == result[1].payload.json.metrics
        IN  /\ metrics.total_wps = Len(work_packages[1])
            /\ metrics.done_count + metrics.in_progress_count
                   + metrics.planned_count + metrics.blocked_count
                 = metrics.total_wps
            /\ \A k \in DOMAIN work_packages[1] :
                  metrics_category(work_packages[1][k]) \in
                      {"done_count", "in_progress_count", "planned_count",
                       "blocked_count"}

\* C6 witness: metrics of a de-scoped and a blocked work package
C6_Witness ==
    /\ pc[1] = "done"
    /\ result[1].kind = "json"
    /\ Len(work_packages[1]) = 2
    /\ work_packages[1][1].status_name = L_Blocked
    /\ work_packages[1][2].status_name = L_Rejected
    /\ result[1].payload.json.metrics.blocked_count = 1
    /\ result[1].payload.json.metrics.planned_count = 1

\* C7: the markdown report's status indicator is "Off track" exactly when
\* the detected blockers list is non-empty, otherwise "At risk" exactly when
\* the done count is below the in-progress count, otherwise "On track".
C7_IndicatorFollowsBlockers ==
    (pc[1] = "done" /\ result[1].kind = "markdown") =>
        LET report == result[1].payload
        IN  report.status =
                IF Len(report.impediments) > 0 THEN "Off track"
                ELSE IF report.appendix.done < report.appendix.in_progress
                     THEN "At risk"
                ELSE "On track"

\* a date text that is a calendar date written as YYYY-MM-DD
ValidDateText(text) ==
    text.shape = "YYYY-MM-DD" /\ ValidYMD(text.y, text.m, text.d)

\* the first calendar date is later than the second
LaterDate(a, b) ==
    \/ a.y > b.y
    \/ a.y = b.y /\ a.m > b.m
    \/ a.y = b.y /\ a.m = b.m /\ a.d > b.d

CallsOf(i) == SelectSeq(calls, LAMBDA c : c.inv = i)

ValidationErrors ==
    {format_error("Invalid date format. Use YYYY-MM-DD"),
     format_error("from_date must be before or equal to to_date")}

\* C8: when from_date or to_date is not a valid YYYY-MM-DD date, or
\* from_date is later than to_date, generate_weekly_report and
\* get_report_data return a formatted error and issue no collaborator call;
\* from_date equal to to_date is accepted.
C8_InvalidDatesRejected ==
    \A i \in InvIds :
        (pc[i] # "idle"
           /\ tool[i] \in {"generate_weekly_report", "get_report_data"}) =>
            LET from_date == input[i].from_date
                to_date == input[i].to_date
            IN  /\ (\/ ~ValidDateText(from_date)
                    \/ ~ValidDateText(to_date)
                    \/ LaterDate(from_date, to_date)) =>
                        /\ pc[i] = "done"
                        /\ result[i].kind = "error"
                        /\ CallsOf(i) = <<>>
                /\ (ValidDateText(from_date) /\ from_date = to_date) =>
                        result[i] \notin ValidationErrors

RequiredOps ==
    {"get_project", "get_work_packages", "get_memberships",
     "get_time_entries"}

\* C9: when a required fetch fails (project, any work-package page,
\* memberships, time entries) the invocation returns a formatted error
\* instead of a report, and the failed call is the invocation's last call:
\* it is not retried and nothing is requested after it.
C9_FetchFailureAborts ==
    \A k \in DOMAIN calls :
        (calls[k].outcome = "raised" /\ calls[k].op \in RequiredOps) =>
            /\ \A j \in DOMAIN calls : j > k => calls[j].inv # calls[k].inv
            /\ pc[calls[k].inv] = "done"
            /\ result[calls[k].inv].kind = "error"
            /\ result[calls[k].inv] = except_Exception(tool[calls[k].inv])
                  \/ result[calls[k].inv] =
                         except_Exception("generate_weekly_report")

\* C9 witness: the second page failed after the first one had arrived
C9_Witness ==
    /\ Len(PageRequests(1)) = 2
    /\ PageRequests(1)[1].outcome = "returned"
    /\ PageRequests(1)[2].offset = 500
    /\ PageRequests(1)[2].outcome = "raised"
    /\ all_work_packages[1] # <<>>
    /\ result[1].kind = "error"

PublicTools ==
    {"generate_weekly_report", "get_report_data",
     "generate_this_week_report", "generate_last_week_report"}

\* C10: every invocation of the four tools that ends, ends by returning a
\* markdown report, a JSON document or a formatted error, whatever fails in
\* the collaborator and however malformed its records are; no exception
\* leaves the tool.
C10_NoExceptionEscapes ==
    \A i \in InvIds :
        (pc[i] = "done" /\ tool[i] \in PublicTools) =>
            result[i].kind \in {"markdown", "json", "error"}

\* C10 witness: every call returned, and a record with a null status made
\* the relevance loop raise
C10_Witness ==
    /\ pc[1] = "done"
    /\ tool[1] = "generate_last_week_report"
    /\ server.data = "null_status"
    /\ Len(calls) = 2
    /\ \A k \in DOMAIN calls : calls[k].outcome = "returned"
    /\ result[1].kind = "error"

RelationCalls(i) ==
    SelectSeq(calls, LAMBDA c : c.inv = i /\ c.op = "get_relations")

\* the relations of the probes that returned, in probe order
RECURSIVE KeptRelations(_)
KeptRelations(probes) ==
    IF probes = <<>> THEN <<>>
    ELSE (IF Head(probes).outcome = "returned"
          THEN RelationsOf(Head(probes).work_package_id)
          ELSE <<>>) \o KeptRelations(Tail(probes))

\* the renderer of invocation i raises on what the invocation collected
RendererRaises(i) ==
    IF lower(input[i].format) = L_json
    THEN JsonRaises(project[i], work_packages[i], time_entries[i])
    ELSE MarkdownRaises(project[i], work_packages[i], time_entries[i])

\* C11: a failed relation probe never fails the report: each of the first
\* ten relevant work packages is probed whatever the earlier probes did, the
\* relations of the probes that returned are kept, and the invocation
\* returns the rendered report (an error only when the renderer itself
\* raises), even when every probe failed.
C11_RelationFailuresSwallowed ==
    \A i \in InvIds :
        (pc[i] = "done" /\ RelationCalls(i) # <<>>) =>
            /\ Len(RelationCalls(i)) = Len(Probed(i))
            /\ \A k \in DOMAIN RelationCalls(i) :
                  /\ RelationCalls(i)[k].work_package_id = Probed(i)[k].id
                  /\ RelationCalls(i)[k].outcome \in {"returned", "raised"}
            /\ relations[i] = KeptRelations(RelationCalls(i))
            /\ result[i].kind = "error" <=> RendererRaises(i)
            /\ result[i].kind = "json" =>
                  result[i].payload.json.relations = relations[i]

\* C11 witness: the first probe failed, the second returned, and the JSON
\* report carries the second probe's relations
C11_Witness ==
    /\ pc[1] = "done"
    /\ Len(RelationCalls(1)) = 2
    /\ RelationCalls(1)[1].outcome = "raised"
    /\ RelationCalls(1)[2].outcome = "returned"
    /\ result[1].kind = "json"
    /\ result[1].payload.json.relations = RelationsOf(2)

\* the timestamp text is well formed and names an instant of [lo, hi]
Within(ts, lo, hi) ==
    /\ ts.shape = "iso"
    /\ DtLE(lo, [ord |-> Ordinal(ts.y, ts.m, ts.d), sec |-> ts.sec])
    /\ DtLE([ord |-> Ordinal(ts.y, ts.m, ts.d), sec |-> ts.sec], hi)

WellFormed(ts) == ts.shape \in {"", "iso"}

\* the status label matches the closed-type keyword set
ClosedTypeLabel(wp) ==
    \E kw \in {<<"c","l","o","s","e","d">>, <<"d","o","n","e">>,
               <<"r","e","s","o","l","v","e","d">>,
               <<"c","o","m","p","l","e","t","e","d">>,
               <<"f","i","n","i","s","h","e","d">>} :
        Contains(kw, lower(get(wp.status_name, <<>>)))

\* one of steps 1-3 of the cascade matches the work package
StepsOneToThree(wp, lo, hi) ==
    \/ Within(wp.updatedAt, lo, hi)
    \/ Within(wp.createdAt, lo, hi)
    \/ ClosedTypeLabel(wp) /\ Within(wp.updatedAt, minus_days(hi, 30), hi)

\* C12: a work package whose closed date (closedOn, or closedAt when
\* closedOn is empty) falls within [from, to] is relevant when none of
\* steps 1-3 matches, whatever its status label is.
C12_ClosedDateAnyStatus ==
    (pc[1] = "filter" /\ all_work_packages[1] # <<>>) =>
        LET wp == LastHandled(1)
            closed == IF wp.closedOn.shape # "" THEN wp.closedOn
                      ELSE wp.closedAt
        IN  (/\ WellFormed(wp.updatedAt) /\ WellFormed(wp.createdAt)
             /\ ~StepsOneToThree(wp, from_dt[1], to_dt[1])
             /\ Within(closed, from_dt[1], to_dt[1]))
                => LastKept(1)

\* a timestamp of the work package fails to parse when the cascade reads it
ParseFailure(wp, lo, hi) ==
    \/ wp.updatedAt.shape = "bad"
    \/ /\ ~Within(wp.updatedAt, lo, hi)
       /\ wp.createdAt.shape = "bad"
    \/ /\ ~StepsOneToThree(wp, lo, hi)
       /\ WellFormed(wp.createdAt)
       /\ ClosedTypeLabel(wp)
       /\ (IF wp.closedOn.shape # "" THEN wp.closedOn
           ELSE wp.closedAt).shape = "bad"

RECURSIVE KeptAlone(_, _, _)
KeptAlone(wps, lo, hi) ==
    IF wps = <<>> THEN <<>>
    ELSE filter_work_packages(<<Head(wps)>>, lo, hi)
             \o KeptAlone(Tail(wps), lo, hi)

LabelOf(wp) ==
    LET primary == lower(get(wp.status_name, <<>>))
    IN  IF primary \in {<<>>, <<"u","n","k","n","o","w","n">>}
        THEN lower(get(wp.status_title, <<>>))
        ELSE primary

HasAny(kws, label) == \E kw \in kws : Contains(kw, label)

\* the category of the first keyword group, in priority order, that the
\* lowercased label contains; planned when none does
ExpectedCategory(label) ==
    IF label \in {<<>>, <<"u","n","k","n","o","w","n">>} THEN "planned"
    ELSE IF HasAny({<<"c","l","o","s","e","d">>, <<"d","o","n","e">>,
                    <<"r","e","s","o","l","v","e","d">>,
                    <<"c","o","m","p","l","e","t","e","d">>,
                    <<"f","i","n","i","s","h","e","d">>}, label)
         THEN "done"
    ELSE IF HasAny({<<"p","r","o","g","r","e","s","s">>,
                    <<"d","e","v","e","l","o","p","m","e","n","t">>,
                    <<"i","m","p","l","e","m","e","n","t","i","n","g">>},
                   label)
         THEN "in_progress"
    ELSE IF HasAny({<<"b","l","o","c","k","e","d">>}, label) THEN "blocked"
    ELSE IF HasAny({<<"r","e","j","e","c","t","e","d">>,
                    <<"c","a","n","c","e","l","l","e","d">>}, label)
         THEN "de_scoped"
    ELSE "planned"

ExpectedGroup(wps, category) ==
    SelectSeq(wps, LAMBDA wp : ExpectedCategory(LabelOf(wp)) = category)

\* C14: status classification gives every label the category of the first
\* keyword group it contains as a case-insensitive substring, in the order
\* done, in_progress, blocked, de_scoped, planned; a label of several groups
\* gets the earliest group, and a label of no group, the empty label and
\* "unknown" get planned.
C14_ClassificationPriority ==
    (pc[1] = "done" /\ result[1].kind = "groups") =>
        LET groups == result[1].groups
            wps == work_packages[1]
        IN  /\ groups.done = ExpectedGroup(wps, "done")
            /\ groups.in_progress = ExpectedGroup(wps, "in_progress")
            /\ groups.blocked = ExpectedGroup(wps, "blocked")
            /\ groups.de_scoped = ExpectedGroup(wps, "de_scoped")
            /\ groups.planned = ExpectedGroup(wps, "planned")
            /\ groups.other = <<>>

\* C14 witness: "Blocked - in progress" is grouped as in progress and
\* "Rejected (reopened)" as de-scoped
C14_Witness ==
    /\ pc[1] = "done"
    /\ result[1].kind = "groups"
    /\ Len(work_packages[1]) = 2
    /\ work_packages[1][1].status_name = L_BlockedInProgress
    /\ lower(work_packages[1][2].status_name) =
           <<"r","e","j","e","c","t","e","d"," ","(","r","e","o","p","e",
             "n","e","d",")">>
    /\ result[1].groups.in_progress = <<work_packages[1][1]>>
    /\ result[1].groups.de_scoped = <<work_packages[1][2]>>

\* the work packages whose primary status name contains "blocked"
PrimaryBlocked(wps) ==
    SelectSeq(wps, LAMBDA wp :
        Contains(<<"b","l","o","c","k","e","d">>,
                 lower(get(wp.status_name, <<>>))))

\* C15: detect_blockers returns, in input order, one record for each work
\* package whose primary status name contains "blocked" in any case and none
\* for any other; the fallback title and the relations argument change
\* nothing, and every reason is "Status marked as blocked".
C15_BlockersFromPrimaryLabel ==
    (pc[1] = "done" /\ result[1].kind = "groups") =>
        LET blockers == result[1].blockers
            expected == PrimaryBlocked(work_packages[1])
        IN  /\ Len(blockers) = Len(expected)
            /\ \A k \in DOMAIN blockers :
                  /\ blockers[k].id = expected[k].id
                  /\ blockers[k].status = expected[k].status_name
                  /\ blockers[k].reason = "Status marked as blocked"

\* C15 witness: with relations given, a work package whose only "blocked"
\* is in its fallback title gives no record, "New - blocked" gives one
C15_Witness ==
    /\ pc[1] = "done"
    /\ result[1].kind = "groups"
    /\ relations[1] # <<>>
    /\ Len(work_packages[1]) = 2
    /\ work_packages[1][1].status_name = <<>>
    /\ work_packages[1][1].status_title = L_Blocked
    /\ lower(work_packages[1][2].status_name) =
           <<"n","e","w"," ","-"," ","b","l","o","c","k","e","d">>
    /\ Len(result[1].blockers) = 1
    /\ result[1].blockers[1].id = work_packages[1][2].id

\* C16: when total_hours is 0 (no time entries, or only entries of 0 hours)
\* the markdown report has no time-distribution section: no header, no
\* percentage row, no division by total_hours; when total_hours > 0 the
\* section has the Development, QA/Testing and Management rows.
C16_HoursGuard ==
    (pc[1] = "done" /\ result[1].kind = "markdown") =>
        LET report == result[1].payload
            rows == report.time_distribution
        IN  /\ report.total_hours = 0 => rows = <<>>
            /\ report.total_hours > 0 =>
                  /\ Len(rows) = 3
                  /\ rows[1].type = "Development"
                  /\ rows[2].type = "QA/Testing"
                  /\ rows[3].type = "Management"
                  /\ \A k \in 1..3 :
                        rows[k].pct =
                            (rows[k].hours * 1000) \div report.total_hours

\* C16 witness: a report rendered from one time entry of 0 hours has no
\* time-distribution section
C16_Witness ==
    /\ pc[1] = "done"
    /\ result[1].kind = "markdown"
    /\ Len(time_entries[1]) = 1
    /\ time_entries[1][1].hours = 0
    /\ result[1].payload.total_hours = 0
    /\ result[1].payload.time_distribution = <<>>

\* the structured-data document of a finished invocation
ReportData(i) ==
    IF tool[i] = "get_report_data" THEN result[i].payload.json.data
    ELSE result[i].payload.json

\* project 5, window 2025-12-02 to 2025-12-08, against a server with the
\* three items (item1 updated on 2025-12-05, or on 2025-12-08 at 10:00)
ScenarioRun(i) ==
    /\ pc[i] = "done"
    /\ result[i].kind = "json"
    /\ server.data \in {"scenario", "scenario_last_day"}
    /\ server.total = 3
    /\ input[i].project_id = 5
    /\ input[i].from_date = DateText(2025, 12, 2)
    /\ input[i].to_date = DateText(2025, 12, 8)

\* C17: for project 5 and window 2025-12-02 to 2025-12-08 with the fetched
\* items item1 (updated in the window, "In Progress"), item2 (closedOn in
\* the window, "Closed") and item3 (untouched for 60 days, "New"), the
\* grouped output is in_progress = [item1], done = [item2], the other three
\* groups empty, and item3 is in no group.
C17_EndToEndScenario ==
    \A i \in InvIds :
        ScenarioRun(i) =>
            LET groups == ReportData(i).work_packages
                item1 == all_work_packages[i][1]
                item2 == all_work_packages[i][2]
            IN  /\ Len(all_work_packages[i]) = 3
                /\ item1.id = 1 /\ item1.status_name = L_InProgress
                /\ item2.id = 2 /\ item2.status_name = L_Closed
                /\ all_work_packages[i][3].status_name = L_New
                /\ groups.in_progress = <<item1>>
                /\ groups.done = <<item2>>
                /\ groups.planned = <<>>
                /\ groups.blocked = <<>>
                /\ groups.de_scoped = <<>>

\* everything invocation i owns: its locals and its own requests in the log
Locals(i) ==
    <<pc[i], tool[i], input[i], today[i], from_dt[i], to_dt[i], project[i],
      offset[i], all_work_packages[i], work_packages[i], members[i],
      time_entries[i], relations[i], probe[i], result[i], CallsOf(i)>>

\* the elements of the pages that answered the page requests reqs, in order
RECURSIVE PagesOf(_)
PagesOf(reqs) ==
    IF reqs = <<>> THEN <<>>
    ELSE (IF Head(reqs).outcome = "returned"
          THEN PageOf(server, Head(reqs).offset, Head(reqs).page_size).elements
          ELSE <<>>) \o PagesOf(Tail(reqs))

\* what the tool of invocation i returns from what i collected
Rendered(i) ==
    IF tool[i] = "_fetch_all_project_work_packages"
    THEN [kind |-> "list", value |-> all_work_packages[i]]
    ELSE IF tool[i] = "get_report_data"
    THEN [kind |-> "json", payload |-> json_dumps(
             [metadata |-> [project_id |-> input[i].project_id,
                            from_date |-> input[i].from_date,
                            to_date |-> input[i].to_date,
                            work_packages_count |-> Len(work_packages[i]),
                            time_entries_count |-> Len(time_entries[i]),
                            members_count |-> Len(members[i])],
              data |-> format_report_data_json(project[i], work_packages[i],
                           time_entries[i], members[i], <<>>)])]
    ELSE IF lower(input[i].format) = L_json
    THEN [kind |-> "json", payload |-> json_dumps(
             format_report_data_json(project[i], work_packages[i],
                 time_entries[i], members[i], relations[i]))]
    ELSE [kind |-> "markdown", payload |->
             format_weekly_report_markdown(project[i], work_packages[i],
                 time_entries[i], members[i], input[i].from_date,
                 input[i].to_date, input[i].sprint_goal, input[i].team_name,
                 relations[i])]

\* what invocation i holds is what a run of i alone holds after the same
\* responses: a function of its own input and of the answers to its own
\* requests
AsIfAlone(i) ==
    LET own == CallsOf(i)
        ops == {own[k].op : k \in DOMAIN own}
        outcomes == {own[k].outcome : k \in DOMAIN own}
    IN  /\ all_work_packages[i] =
              PagesOf(SelectSeq(own, LAMBDA c : c.op = "get_work_packages"))
        /\ work_packages[i] =
              IF "get_memberships" \in ops
              THEN filter_work_packages(all_work_packages[i],
                                        strptime(input[i].from_date),
                                        strptime(input[i].to_date))
              ELSE <<>>
        /\ relations[i] =
              KeptRelations(SelectSeq(own, LAMBDA c : c.op = "get_relations"))
        /\ pc[i] = "done" =>
              IF result[i].kind \in {"error", "exception"}
              THEN "raised" \in outcomes \/ RendererRaises(i)
              ELSE result[i] = Rendered(i)

\* a step changes what one invocation owns and nothing of the other
OthersUntouched ==
    \E i \in InvIds : \A j \in InvIds \ {i} : Locals(j)' = Locals(j)

\* C18: two invocations whose steps interleave at their awaits share no
\* mutable state: at every moment each invocation's accumulated pages,
\* relevant list, relations and output are those of a run of that
\* invocation alone on the same responses, and every step leaves the
\* locals and the requests of the other invocation as they were.
C18_InvocationsIsolated ==
    /\ [](\A i \in InvIds : AsIfAlone(i))
    /\ [][OthersUntouched]_vars

\* C18 witness: both invocations rendered a report after their relation
\* probes alternated in the log, with different relevant lists
C18_Witness ==
    /\ pc[1] = "done" /\ pc[2] = "done"
    /\ result[1].kind # "error" /\ result[2].kind # "error"
    /\ work_packages[1] # <<>> /\ work_packages[2] # <<>>
    /\ work_packages[1] # work_packages[2]
    /\ relations[1] # <<>> /\ relations[2] # <<>>
    /\ \E a, b, c \in DOMAIN calls :
          /\ a < b /\ b < c
          /\ calls[a].inv = 1 /\ calls[b].inv = 2 /\ calls[c].inv = 1
          /\ calls[a].op = "get_relations" /\ calls[b].op = "get_relations"
          /\ calls[c].op = "get_relations"

WeekTools == {"generate_this_week_report", "generate_last_week_report"}

\* C19: generate_this_week_report asks for the Monday on or before now's
\* date up to the Sunday six days later, a window that holds now's date;
\* generate_last_week_report asks for the window exactly seven days
\* earlier; the two date texts are always well formed and in order, so the
\* date validation never rejects them.
C19_WeekWindow ==
    \A i \in InvIds :
        (tool[i] \in WeekTools /\ input[i] # NoInput) =>
            LET from == strptime(input[i].from_date)
                to == strptime(input[i].to_date)
                back == IF tool[i] = "generate_last_week_report"
                        THEN 7 ELSE 0
            IN  /\ from # ValueError /\ to # ValueError
                /\ input[i].from_date.shape = "YYYY-MM-DD"
                /\ input[i].to_date.shape = "YYYY-MM-DD"
                /\ (from.ord - Ordinal(2025, 12, 8)) % 7 = 0
                /\ to.ord = from.ord + 6
                /\ from.ord + back <= today[i].ord
                /\ today[i].ord <= to.ord + back
                /\ DtLE(from, to)
                /\ CallsOf(i) # <<>> => from_dt[i] = from /\ to_dt[i] = to
                /\ result[i].kind = "error" =>
                      result[i].message \notin
                          {"Invalid date format. Use YYYY-MM-DD",
                           "from_date must be before or equal to to_date"}

\* C19 witness: called on a Thursday New Year's Day, last week's report was
\* rendered for Monday 2025-12-22 to Sunday 2025-12-28
C19_Witness ==
    /\ tool[1] = "generate_last_week_report"
    /\ today[1] = [ord |-> Ordinal(2026, 1, 1), sec |-> 12 * 3600]
    /\ input[1].from_date = DateText(2025, 12, 22)
    /\ input[1].to_date = DateText(2025, 12, 28)
    /\ pc[1] = "done"
    /\ result[1].kind = "markdown"

\* the response to the page request req
ResponseTo(req) == PageOf(server, req.offset, req.page_size)

\* the response to req is one the loop stops on: no elements, or
\* offset + 500 >= the total of this response (0 when it has none)
StopsLoop(req) ==
    \/ ResponseTo(req).elements = <<>>
    \/ req.offset + 500 >=
          (IF ResponseTo(req).has_total THEN ResponseTo(req).total ELSE 0)

\* the page requests obey the loop: the first is at offset 0; an answered
\* request whose response stops the loop is the last one and the helper has
\* returned; any other answered request is followed by the request at its
\* offset + 500
LoopObeyed ==
    LET reqs == PageRequests(1)
    IN  /\ \A k \in DOMAIN reqs :
              /\ reqs[k].offset = (k - 1) * 500
              /\ reqs[k].page_size = 500
              /\ reqs[k].outcome = "pending" => k = Len(reqs)
              /\ reqs[k].outcome = "returned" =>
                    IF StopsLoop(reqs[k])
                    THEN k = Len(reqs) /\ pc[1] = "done"
                    ELSE k < Len(reqs)
        /\ pc[1] = "done" => reqs # <<>> /\ StopsLoop(reqs[Len(reqs)])

\* C20: the pagination loop stops right after the first response that has
\* no elements or for which offset + 500 >= the total it reports, and sends
\* nothing after it; after any other response it asks for offset + 500;
\* so against a collaborator whose total is bounded, or that comes to an
\* empty page, the helper returns.
C20_LoopStops ==
    /\ []LoopObeyed
    /\ (pc[1] = "get_work_packages") ~> (pc[1] = "done")

\* C20 witness: a collaborator that reports 1501 records and holds 250 was
\* asked for a second page after the short first one, and the helper
\* returned on the empty second page with the 250 records
C20_Witness ==
    /\ server.data = "truncated"
    /\ server.total = 1501
    /\ pc[1] = "done"
    /\ Len(PageRequests(1)) = 2
    /\ PageRequests(1)[2].offset = 500
    /\ Len(result[1].value) = 250

\* the timestamp text parses and names an instant outside [lo, hi]
Outside(ts, lo, hi) == ts.shape = "iso" /\ ~Within(ts, lo, hi)

\* C21: a work package with parseable updatedAt and createdAt, both outside
\* [from, to], is relevant when its status label is closed-type (contains
\* closed, done, resolved, completed or finished, in any case) and its
\* updatedAt is within [to - 30 days, to]; the same work package with a
\* label that is not closed-type is not relevant.
C21_ClosedLookback ==
    (pc[1] = "filter" /\ all_work_packages[1] # <<>>) =>
        LET wp == LastHandled(1)
        IN  (/\ Outside(wp.updatedAt, from_dt[1], to_dt[1])
             /\ Outside(wp.createdAt, from_dt[1], to_dt[1])
             /\ Within(wp.updatedAt, minus_days(to_dt[1], 30), to_dt[1]))
                => (LastKept(1) <=> ClosedTypeLabel(wp))

\* C21 witness: "Unresolved", last updated 18 days before the end of the
\* window and created long before it, was kept; the "New" work package
\* updated the second before the window was dropped
C21_Witness ==
    /\ pc[1] = "filter"
    /\ Len(all_work_packages[1]) = 2
    /\ input[1].from_date = DateText(2025, 12, 2)
    /\ all_work_packages[1][1].status_name = L_New
    /\ all_work_packages[1][1].updatedAt = T_BeforeFrom
    /\ all_work_packages[1][2].status_name = L_Unresolved
    /\ all_work_packages[1][2].updatedAt = T_Lookback
    /\ work_packages[1] = <<all_work_packages[1][2]>>

\* a lowercased label that is empty or "unknown"
Unusable(label) == label \in {<<>>, <<"u","n","k","n","o","w","n">>}

\* the category of the work package by the two-tier lookup: the primary
\* field when usable, else the fallback field, else planned
CategoryBySource(wp) ==
    LET primary == lower(get(wp.status_name, <<>>))
        fallback == lower(get(wp.status_title, <<>>))
    IN  IF ~Unusable(primary) THEN ExpectedCategory(primary)
        ELSE IF ~Unusable(fallback) THEN ExpectedCategory(fallback)
        ELSE "planned"

\* how many work packages of wps the two-tier lookup puts in categories
CountBySource(wps, categories) ==
    Cardinality({k \in DOMAIN wps : CategoryBySource(wps[k]) \in categories})

\* C22: grouping and status counting read the primary status name unless
\* it is empty or "unknown" in any case; then, and only then, they read the
\* fallback title; when that is empty or "unknown" too the work package is
\* planned.
C22_LabelSource ==
    (pc[1] = "done" /\ result[1].kind = "groups") =>
        LET wps == work_packages[1]
            groups == result[1].groups
            metrics == result[1].metrics
        IN  /\ \A k \in DOMAIN wps :
                  Occurrences(groups[CategoryBySource(wps[k])], wps[k]) > 0
            /\ metrics.done_count = CountBySource(wps, {"done"})
            /\ metrics.in_progress_count = CountBySource(wps, {"in_progress"})
            /\ metrics.blocked_count = CountBySource(wps, {"blocked"})
            /\ metrics.planned_count =
                   CountBySource(wps, {"planned", "de_scoped"})

\* C22 witness: primary "Unknown" with title "Blocked" is grouped and counted
\* as blocked; primary "Triage" with title "Closed" is planned
C22_Witness ==
    /\ pc[1] = "done"
    /\ result[1].kind = "groups"
    /\ Len(work_packages[1]) = 2
    /\ work_packages[1][1].status_name = L_Unknown
    /\ work_packages[1][1].status_title = L_Blocked
    /\ work_packages[1][2].status_name = L_Triage
    /\ work_packages[1][2].status_title = L_Closed
    /\ result[1].groups.blocked = <<work_packages[1][1]>>
    /\ result[1].groups.planned = <<work_packages[1][2]>>
    /\ result[1].metrics.blocked_count = 1
    /\ result[1].metrics.planned_count = 1

\* the place of a collaborator call in the order of the implementation
StageOf(op) ==
    CASE op = "get_project" -> 1
      [] op = "get_work_packages" -> 2
      [] op = "get_memberships" -> 3
      [] op = "get_time_entries" -> 4
      [] op = "get_relations" -> 5

C24_ProbesBounded ==
    \A i \in InvIds :
        tool[i] \in {"generate_weekly_report"} \cup WeekTools =>
            LET probes == RelationCalls(i)
                n == Len(work_packages[i])
            IN  /\ Len(probes) <= 10
                /\ Len(probes) <= n
                /\ \A k \in DOMAIN probes :
                      probes[k].work_package_id = work_packages[i][k].id
                /\ (pc[i] = "done" /\ result[i].kind \in {"markdown", "json"})
                      => Len(probes) = IF n < 10 THEN n ELSE 10

\* C24 witness: of 12 fetched work packages 11 are relevant; the report was
\* rendered after 10 probes, the last for the 10th relevant work package
\* (id 11); the 11th (id 12) and the irrelevant one (id 2) were not probed
C24_Witness ==
    /\ tool[1] = "generate_weekly_report"
    /\ pc[1] = "done"
    /\ result[1].kind = "markdown"
    /\ Len(all_work_packages[1]) = 12
    /\ Len(work_packages[1]) = 11
    /\ work_packages[1][11].id = 12
    /\ Len(RelationCalls(1)) = 10
    /\ RelationCalls(1)[10].work_package_id = 11
    /\ \A k \in DOMAIN calls : calls[k].work_package_id \notin {2, 12}
(***************************************************************************)
(* C25: hours by activity                                                  *)
(***************************************************************************)
\* the bucket the claim gives a time entry, by its activity label
BucketByWords(te) ==
    LET label == lower(get(te.activity_name, <<>>))
        has(word) == Contains(word, label)
    IN  IF has(<<"d","e","v","e","l","o","p","m","e","n","t">>)
           \/ has(<<"i","m","p","l","e","m","e","n","t">>)
        THEN "dev_hours"
        ELSE IF has(<<"t","e","s","t">>) \/ has(<<"q","a">>)
        THEN "qa_hours"
        ELSE IF has(<<"m","a","n","a","g","e","m","e","n","t">>)
                \/ has(<<"m","e","e","t","i","n","g">>)
        THEN "management_hours"
        ELSE "none"

\* x <= y for two exact binary values
BinLE(x, y) ==
    IF x.m = <<>> THEN TRUE
    ELSE IF y.m = <<>> THEN FALSE
    ELSE IF x.e # y.e THEN x.e < y.e
    ELSE LET bit(v, k) == IF k <= Len(v.m) THEN v.m[k] ELSE 0
         IN  ~\E k \in 1..Max(Len(x.m), Len(y.m)) :
                 /\ bit(x, k) > bit(y, k)
                 /\ \A q \in 1..(k - 1) : bit(x, q) = bit(y, q)

\* every bucket holds the hours of the entries the claim gives it
BucketsAsClaimed(i) ==
    LET tes == time_entries[i]
        metrics == result[i].metrics
    IN  /\ metrics.total_hours = TotalIn(tes, tes)
        /\ \A b \in {"dev_hours", "qa_hours", "management_hours"} :
               metrics[b] = TotalIn(tes, SelectSeq(tes,
                                LAMBDA te : BucketByWords(te) = b))

\* dev_hours + qa_hours + management_hours <= total_hours, as numbers
BucketsWithinTotal(i) ==
    LET tes == time_entries[i]
        metrics == result[i].metrics
    IN  IF \E k \in DOMAIN tes : tes[k].hours_kind = "float"
        THEN BinLE(exact_add(exact_add(metrics.dev_hours, metrics.qa_hours),
                             metrics.management_hours),
                   metrics.total_hours)
        ELSE metrics.dev_hours + metrics.qa_hours + metrics.management_hours
                 <= metrics.total_hours

\* C25: every time entry adds its hours to total_hours and to at most one of
\* dev_hours (activity contains development or implement), qa_hours (test or
\* qa), management_hours (management or meeting), the first that matches; an
\* entry matching none adds to total_hours only; so dev_hours + qa_hours +
\* management_hours <= total_hours for non-negative hours.
C25_HoursAttribution ==
    \A i \in InvIds :
        (pc[i] = "done" /\ tool[i] = "group_by_status") =>
            /\ BucketsAsClaimed(i)
            /\ BucketsWithinTotal(i)

(***************************************************************************)
(* C26: type counters                                                      *)
(***************************************************************************)
\* the type counter the claim gives a work item, by its type label
TypeByWords(wp) ==
    LET label == lower(get(wp.type_name, <<>>))
        has(word) == Contains(word, label)
    IN  IF has(<<"b","u","g">>) \/ has(<<"d","e","f","e","c","t">>)
        THEN "bug_count"
        ELSE IF \/ has(<<"f","e","a","t","u","r","e">>)
                \/ has(<<"s","t","o","r","y">>)
                \/ has(<<"t","a","s","k">>)
        THEN "feature_count"
        ELSE "none"

\* the list with every type label taken away
Untyped(wps) == [k \in DOMAIN wps |-> [wps[k] EXCEPT !.type_name = Missing]]

StatusCounters == {"done_count", "in_progress_count", "planned_count", "blocked_count"}

\* C26: each work item increments at most one type counter, bug_count when
\* its type label contains bug or defect, otherwise feature_count when it
\* contains feature, story or task, otherwise neither; so bug_count +
\* feature_count <= total_wps; and the status counters are what they are for
\* the same items without their type labels.
C26_TypeCounters ==
    \A i \in InvIds :
        (pc[i] = "done" /\ tool[i] = "group_by_status") =>
            LET wps == work_packages[i]
                metrics == result[i].metrics
            IN  /\ \A c \in {"bug_count", "feature_count"} :
                       metrics[c] = Cardinality({k \in DOMAIN wps :
                                                    TypeByWords(wps[k]) = c})
                /\ metrics.bug_count + metrics.feature_count
                       <= metrics.total_wps
                /\ \A c \in StatusCounters :
                       metrics[c] = calculate_metrics(Untyped(wps), <<>>)[c]

\* a label with bug and task in it counted as a bug beside an item that
\* counts for no type, both counted by status
C26_Witness ==
    /\ pc[1] = "done"
    /\ tool[1] = "group_by_status"
    /\ Len(work_packages[1]) = 2
    /\ work_packages[1][1].type_name = <<"B","u","g"," ","t","a","s","k">>
    /\ work_packages[1][2].type_name = <<"E","p","i","c">>
    /\ result[1].metrics.bug_count = 1
    /\ result[1].metrics.feature_count = 0
    /\ result[1].metrics.in_progress_count = 2

(***************************************************************************)
(* C27: the relevant list is a sub-list of the fetched list                *)
(***************************************************************************)
\* s can be had from t by leaving items out
RECURSIVE IsSubSeq(_, _)
IsSubSeq(s, t) ==
    IF s = <<>> THEN TRUE
    ELSE IF t = <<>> THEN FALSE
    ELSE IF Head(s) = Head(t) THEN IsSubSeq(Tail(s), Tail(t))
    ELSE IsSubSeq(s, Tail(t))

\* the loop body has left the relevant list alone or put the item it ran on,
\* once, at its end
AppendedAtMostOnce ==
    \A i \in InvIds :
        all_work_packages'[i] # all_work_packages[i] =>
            LET wp == all_work_packages'[i][Len(all_work_packages'[i])]
            IN  /\ all_work_packages'[i] = Append(all_work_packages[i], wp)
                /\ \/ work_packages'[i] = work_packages[i]
                   \/ work_packages'[i] = Append(work_packages[i], wp)

\* C27: the relevant list built by the filter is an order-preserving
\* sub-list of the fetched list: every fetched item is appended at most once
\* (never by two cascade steps, never by a cascade step and the
\* parse-failure path), and relevant items keep their fetched order.
C27_OrderPreservingSublist ==
    /\ [](\A i \in InvIds :
             /\ IsSubSeq(work_packages[i], all_work_packages[i])
             /\ Len(work_packages[i]) <= Len(all_work_packages[i]))
    /\ [][AppendedAtMostOnce]_vars

\* a closed item whose update, creation and closing dates are all in the
\* window, kept once, followed by another kept item
C27_Witness ==
    /\ Len(all_work_packages[1]) = 2
    /\ LET wp == all_work_packages[1][1]
       IN  /\ is_closed_status(wp)
           /\ ParsedWithin(wp.updatedAt, from_dt[1], to_dt[1])
           /\ ParsedWithin(wp.createdAt, from_dt[1], to_dt[1])
           /\ ParsedWithin(closed_on(wp), from_dt[1], to_dt[1])
    /\ all_work_packages[1][2] # all_work_packages[1][1]
    /\ work_packages[1] = all_work_packages[1]

(***************************************************************************)
(* C28: a page without a total                                             *)
(***************************************************************************)
\* the response has elements and no total, or a total of 0
NoUsableTotal(wp_result) ==
    /\ wp_result.elements # <<>>
    /\ ~wp_result.has_total \/ wp_result.total = 0

====
